---------------------------- MODULE Spec2Model ----------------------------
(***************************************************************************)
(* A model of thoth-user-api's request memoization layer and of its job    *)
(* lifecycle queries (src/thoth/user_api/api_v1.py).                        *)
(*                                                                         *)
(* Python values are modelled as follows.  A dict is the sequence of its   *)
(* <<key, value>> pairs in insertion order; None, booleans and opaque      *)
(* payloads are strings ("None", "True", "False", "stackA"); a job handle  *)
(* is the sequence of the tokens of its text, so that str.startswith is a  *)
(* real prefix test.  A store is a function from document ids to records.  *)
(***************************************************************************)
EXTENDS Integers, Sequences, FiniteSets, TLC

(* Bounds of the model. *)
MaxDispatch == 2
MaxTime == 2
THOTH_CACHE_EXPIRATION == 2

VARIABLES
    analysesCache,     \* AnalysesCacheStore: cached_document_id -> record
    provenanceCache,   \* ProvenanceCacheStore
    advisersCache,     \* AdvisersCacheStore
    buildlogsCache,    \* BuildLogsAnalysesCacheStore
    analysisByDigest,  \* AnalysisByDigest: image digest -> stored response
    buildLogs,         \* BuildLogsStore: document_id -> log_info
    results,           \* result stores: <<adapter class, document id>>
    jobs,              \* the scheduler's jobs: handle -> status report
    dispatched,        \* number of jobs the dispatcher has accepted so far
    now,               \* the wall clock, in seconds
    last,              \* the last request handled, with its response
    inflight,          \* the requests being handled concurrently, per thread
    graph              \* the process-wide GRAPH wrapper and its threads

vars == <<analysesCache, provenanceCache, advisersCache, buildlogsCache,
          analysisByDigest, buildLogs, results, jobs, dispatched, now, last, inflight, graph>>

---------------------------------------------------------------------------
(* Python dicts. *)

DictKeys(d) == {d[i][1] : i \in 1..Len(d)}

DictGet(d, k) == d[CHOOSE i \in 1..Len(d) : d[i][1] = k][2]

DictSet(d, k, v) ==
    IF k \in DictKeys(d)
    THEN [i \in 1..Len(d) |-> IF d[i][1] = k THEN <<k, v>> ELSE d[i]]
    ELSE Append(d, <<k, v>>)

DictPop(d, k) == SelectSeq(d, LAMBDA p : p[1] # k)

(* dict.update(other) *)
RECURSIVE DictUpdate(_, _)
DictUpdate(d, other) ==
    IF other = <<>> THEN d
    ELSE DictUpdate(DictSet(d, Head(other)[1], Head(other)[2]), Tail(other))

(* The keys of all parameter mappings, in the order json.dumps(sort_keys=True)
   emits them. *)
SortedKeys ==
    <<"application_stack", "base_image", "base_image_analysis_id", "build_log",
      "count", "debug", "document_id", "environment_type",
      "force", "image", "library_usage", "limit", "limit_latest_versions",
      "log_info", "origin", "output_image", "output_image_analysis_id",
      "recommendation_type", "registry_password",
      "registry_user", "requirements", "requirements_locked",
      "runtime_environment", "verify_tls", "whitelisted_sources">>

(* The keys whose values are mappings themselves: json.dumps sorts the keys
   of a nested mapping as it sorts those of the outer one. *)
MappingKeys == {"log_info"}

(* The pairs in the order of their insertion: no sorting. *)
JsonDumpsSortKeys_InsertionOrder(d) == d

(* json.dumps(parameters, sort_keys=True): the pairs ordered by key, at
   every level of nesting. *)
RECURSIVE JsonDumpsSortKeys(_)
JsonDumpsSortKeys(d) ==
    LET ks == SelectSeq(SortedKeys, LAMBDA k : k \in DictKeys(d))
    IN  [i \in 1..Len(ks) |->
            <<ks[i], IF ks[i] \in MappingKeys
                     THEN JsonDumpsSortKeys(DictGet(d, ks[i]))
                     ELSE DictGet(d, ks[i])>>]

(* hashlib.sha256(...).hexdigest(): collision free on the inputs of the model. *)
_compute_digest_params(parameters) == <<"sha256", JsonDumpsSortKeys(parameters)>>

(* A prefix test that looks at the first token only. *)
StartsWith_FirstToken(s, prefix) ==
    s # <<>> /\ prefix # <<>> /\ s[1] = prefix[1]

(* str.startswith *)
StartsWith(s, prefix) ==
    /\ Len(s) >= Len(prefix)
    /\ SubSeq(s, 1, Len(prefix)) = prefix

(* Truthiness of an optional string. *)
Truthy(v) == v \notin {"None", ""}

(* "if force": the test inverted. *)
ConsultCache_Inverted(force) == force = "True"

(* The cache consulted whatever the caller asks. *)
ConsultCache_Always(force) == TRUE

(* "if not force": the cache is consulted unless the caller forces a run. *)
ConsultCache(force) == force # "True"

---------------------------------------------------------------------------
(* The stores and the scheduler, bundled so that a handler is a function
   from a world to a world and a response. *)

World ==
    [analysesCache |-> analysesCache, provenanceCache |-> provenanceCache,
     advisersCache |-> advisersCache, buildlogsCache |-> buildlogsCache,
     analysisByDigest |-> analysisByDigest, buildLogs |-> buildLogs,
     results |-> results, jobs |-> jobs, dispatched |-> dispatched]

(* A write that replaces every record of the store. *)
Upsert_AllKeys(store, key, record) ==
    [k \in DOMAIN store \cup {key} |-> record]

(* A store that keeps the record it already has for a key. *)
Upsert_KeepFirst(store, key, record) ==
    [k \in DOMAIN store \cup {key} |-> IF k \in DOMAIN store THEN store[k]
                                       ELSE record]

(* store_document_record / store_document: a last-write-wins upsert. *)
Upsert(store, key, record) ==
    [k \in DOMAIN store \cup {key} |-> IF k = key THEN record ELSE store[k]]

EmptyStore == [k \in {} |-> <<>>]

(* External calls made while one request is handled. *)
NoCalls ==
    [metadata |-> 0, graph |-> 0, cache_get |-> 0, cache_put |-> 0,
     dispatch |-> 0, by_digest_put |-> 0, by_digest_get |-> 0,
     buildlog_put |-> 0, store_get |-> 0, scheduler |-> 0]

Digit == <<"1", "2", "3", "4", "5", "6", "7", "8", "9">>

PackageExtractPrefix == <<"package-extract", "-">>
ProvenanceCheckerPrefix == <<"provenance-checker", "-">>
AdviserPrefix == <<"adviser", "-">>
BuildAnalyzePrefix == <<"build-analyze", "-">>

(* The runner's refusal caught and returned as an answer. *)
_do_schedule_ReturnsError(w, parameters, runner_prefix, runner_ok) ==
    IF runner_ok
    THEN LET analysis_id == runner_prefix \o <<Digit[w.dispatched + 1]>>
         IN  [raised |-> "None",
              w |-> [w EXCEPT !.dispatched = @ + 1,
                              !.jobs = [k \in DOMAIN @ \cup {analysis_id} |->
                                           IF k = analysis_id
                                           THEN [state |-> "registered",
                                                 exit_code |-> -1]
                                           ELSE @[k]]],
              response |-> [analysis_id |-> analysis_id,
                            parameters |-> parameters,
                            cached |-> "False"],
              status |-> 202]
    ELSE [raised |-> "None", w |-> w,
          response |-> [error |-> "Internal server error occurred"],
          status |-> 500]

(* The handle of a newly dispatched job tagged as cached. *)
_do_schedule_TaggedCached(w, parameters, runner_prefix, runner_ok) ==
    IF runner_ok
    THEN LET analysis_id == runner_prefix \o <<Digit[w.dispatched + 1]>>
         IN  [raised |-> "None",
              w |-> [w EXCEPT !.dispatched = @ + 1,
                              !.jobs = [k \in DOMAIN @ \cup {analysis_id} |->
                                           IF k = analysis_id
                                           THEN [state |-> "registered",
                                                 exit_code |-> -1]
                                           ELSE @[k]]],
              response |-> [analysis_id |-> analysis_id,
                            parameters |-> parameters,
                            cached |-> "True"],
              status |-> 202]
    ELSE [raised |-> "DispatchError", w |-> w,
          response |-> [error |-> "Internal server error occurred"],
          status |-> 500]

(* _do_schedule: the runner either returns the handle of a newly registered
   job or raises; nothing is caught here. *)
_do_schedule(w, parameters, runner_prefix, runner_ok) ==
    IF runner_ok
    THEN LET analysis_id == runner_prefix \o <<Digit[w.dispatched + 1]>>
         IN  [raised |-> "None",
              w |-> [w EXCEPT !.dispatched = @ + 1,
                              !.jobs = Upsert(@, analysis_id,
                                  [state |-> "registered", exit_code |-> -1])],
              response |-> [analysis_id |-> analysis_id,
                            parameters |-> parameters,
                            cached |-> "False"],
              status |-> 202]
    ELSE [raised |-> "DispatchError", w |-> w,
          response |-> [error |-> "Internal server error occurred"],
          status |-> 500]

---------------------------------------------------------------------------
(* Image analysis. *)

(* Every image error answered as a bad request. *)
_do_get_image_metadata_AllBadRequests(image, registry_user, registry_password, verify_tls, md) ==
    IF md.kind = "ok"
    THEN [body |-> [digest |-> md.digest], status |-> 200]
    ELSE [body |-> [error |-> md.kind,
                    parameters |-> <<<<"image", image>>,
                                     <<"registry_user", registry_user>>,
                                     <<"registry_password", registry_password>>,
                                     <<"verify_tls", verify_tls>>>>],
          status |-> 400]

(* _do_get_image_metadata: get_image_metadata either returns the metadata of
   the image (md.kind = "ok") or raises one of the image errors. *)
_do_get_image_metadata(image, registry_user, registry_password, verify_tls, md) ==
    IF md.kind = "ok"
    THEN [body |-> [digest |-> md.digest], status |-> 200]
    ELSE [body |-> [error |-> md.kind,
                    parameters |-> <<<<"image", image>>,
                                     <<"registry_user", registry_user>>,
                                     <<"registry_password", registry_password>>,
                                     <<"verify_tls", verify_tls>>>>],
          status |-> CASE md.kind = "ImageBadRequestError" -> 400
                       [] md.kind = "ImageManifestUnknownError" -> 400
                       [] md.kind = "ImageAuthenticationRequired" -> 401
                       [] OTHER -> 400]

(* The environment type kept as it was sent. *)
AnalyzeParameters_AsSent(req) ==
    DictPop(<<<<"image", req.image>>, <<"debug", req.debug>>,
              <<"registry_user", req.registry_user>>,
              <<"registry_password", req.registry_password>>,
              <<"environment_type", req.environment_type>>,
              <<"origin", req.origin>>,
              <<"verify_tls", req.verify_tls>>,
              <<"force", req.force>>>>, "force")

(* The parameters post_analyze echoes and hashes: locals() without force and
   with the default environment type filled in. *)
AnalyzeParameters(req) ==
    LET locals == <<<<"image", req.image>>, <<"debug", req.debug>>,
                    <<"registry_user", req.registry_user>>,
                    <<"registry_password", req.registry_password>>,
                    <<"environment_type", req.environment_type>>,
                    <<"origin", req.origin>>,
                    <<"verify_tls", req.verify_tls>>,
                    <<"force", req.force>>>>
        popped == DictPop(locals, "force")
    IN  DictSet(popped, "environment_type",
                IF Truthy(req.environment_type) THEN req.environment_type
                ELSE "runtime")

AnalyzeCachedDocumentId(digest, parameters) ==
    <<digest, "+", _compute_digest_params(parameters)>>

(* A record that is served only until the next job is dispatched. *)
post_analyze_OutlivedByDispatch(w, req, md, runner_ok) ==
    LET parameters == AnalyzeParameters(req)
        force == ~ConsultCache(req.force)
        metadata == _do_get_image_metadata(req.image, req.registry_user,
                        req.registry_password, req.verify_tls, md)
        cached_document_id ==
            AnalyzeCachedDocumentId(metadata.body.digest, parameters)
        scheduled == _do_schedule(w, parameters, PackageExtractPrefix, runner_ok)
    IN  IF metadata.status # 200
        THEN [w |-> w, raised |-> "None", response |-> metadata.body,
              status |-> metadata.status,
              calls |-> [NoCalls EXCEPT !.metadata = 1]]
        ELSE IF /\ ~force
                /\ cached_document_id \in DOMAIN w.analysesCache
                /\ w.analysesCache[cached_document_id].analysis_id[3] =
                       Digit[w.dispatched]
        THEN [w |-> w, raised |-> "None",
              response |-> [analysis_id |->
                                w.analysesCache[cached_document_id].analysis_id,
                            cached |-> "True",
                            parameters |-> parameters],
              status |-> 202,
              calls |-> [NoCalls EXCEPT !.metadata = 1, !.cache_get = 1]]
        ELSE IF scheduled.raised # "None"
        THEN [w |-> w, raised |-> scheduled.raised,
              response |-> scheduled.response, status |-> scheduled.status,
              calls |-> [NoCalls EXCEPT !.metadata = 1,
                             !.cache_get = IF force THEN 0 ELSE 1,
                             !.dispatch = 1]]
        ELSE [w |-> [scheduled.w EXCEPT
                        !.analysisByDigest =
                            Upsert(@, metadata.body.digest, scheduled.response),
                        !.analysesCache =
                            IF scheduled.status = 202
                            THEN Upsert(@, cached_document_id,
                                   [analysis_id |-> scheduled.response.analysis_id])
                            ELSE @],
              raised |-> "None",
              response |-> scheduled.response, status |-> scheduled.status,
              calls |-> [NoCalls EXCEPT !.metadata = 1,
                             !.cache_get = IF force THEN 0 ELSE 1,
                             !.dispatch = 1, !.by_digest_put = 1,
                             !.cache_put = IF scheduled.status = 202 THEN 1 ELSE 0]]

post_analyze(w, req, md, runner_ok) ==
    LET parameters == AnalyzeParameters(req)
        force == ~ConsultCache(req.force)
        metadata == _do_get_image_metadata(req.image, req.registry_user,
                        req.registry_password, req.verify_tls, md)
        cached_document_id ==
            AnalyzeCachedDocumentId(metadata.body.digest, parameters)
        scheduled == _do_schedule(w, parameters, PackageExtractPrefix, runner_ok)
    IN  IF metadata.status # 200
        THEN [w |-> w, raised |-> "None", response |-> metadata.body,
              status |-> metadata.status,
              calls |-> [NoCalls EXCEPT !.metadata = 1]]
        ELSE IF ~force /\ cached_document_id \in DOMAIN w.analysesCache
        THEN [w |-> w, raised |-> "None",
              response |-> [analysis_id |->
                                w.analysesCache[cached_document_id].analysis_id,
                            cached |-> "True",
                            parameters |-> parameters],
              status |-> 202,
              calls |-> [NoCalls EXCEPT !.metadata = 1, !.cache_get = 1]]
        ELSE IF scheduled.raised # "None"
        THEN [w |-> w, raised |-> scheduled.raised,
              response |-> scheduled.response, status |-> scheduled.status,
              calls |-> [NoCalls EXCEPT !.metadata = 1,
                             !.cache_get = IF force THEN 0 ELSE 1,
                             !.dispatch = 1]]
        ELSE [w |-> [scheduled.w EXCEPT
                        !.analysisByDigest =
                            Upsert(@, metadata.body.digest, scheduled.response),
                        !.analysesCache =
                            IF scheduled.status = 202
                            THEN Upsert(@, cached_document_id,
                                   [analysis_id |-> scheduled.response.analysis_id])
                            ELSE @],
              raised |-> "None",
              response |-> scheduled.response, status |-> scheduled.status,
              calls |-> [NoCalls EXCEPT !.metadata = 1,
                             !.cache_get = IF force THEN 0 ELSE 1,
                             !.dispatch = 1, !.by_digest_put = 1,
                             !.cache_put = IF scheduled.status = 202 THEN 1 ELSE 0]]

---------------------------------------------------------------------------
(* Provenance checks and advises: the time-stamped caches. *)

(* Every requirements text taken as well formed. *)
ProjectFromStrings_AcceptsAll(requirements, requirements_lock, runtime_environment) ==
    [raised |-> "None",
     to_dict |-> <<<<"requirements", requirements>>,
                   <<"requirements_locked", requirements_lock>>,
                   <<"runtime_environment", runtime_environment>>>>]

(* Project.from_strings: raises on a requirements text it cannot parse. *)
ProjectFromStrings(requirements, requirements_lock, runtime_environment) ==
    IF requirements = "malformed" \/ requirements_lock = "malformed"
    THEN [raised |-> "ThothPythonException"]
    ELSE [raised |-> "None",
          to_dict |-> <<<<"requirements", requirements>>,
                        <<"requirements_locked", requirements_lock>>,
                        <<"runtime_environment", runtime_environment>>>>]

(* A record treated as fresh in the second it expires. *)
Fresh_Inclusive(cache_record, timestamp_now) ==
    cache_record.timestamp + THOTH_CACHE_EXPIRATION >= timestamp_now

(* A cache record of a time-stamped cache is fresh. *)
Fresh(cache_record, timestamp_now) ==
    cache_record.timestamp + THOTH_CACHE_EXPIRATION > timestamp_now

ProvenanceCachedDocumentId(project, origin, whitelisted_sources) ==
    _compute_digest_params(
        project.to_dict \o <<<<"origin", origin>>,
                             <<"whitelisted_sources", whitelisted_sources>>>>)

(* A hit that refreshes the timestamp of the record it is served from. *)
post_provenance_python_RefreshOnHit(w, req, whitelisted_sources, runner_ok, timestamp_now) ==
    LET locals == <<<<"application_stack", req.application_stack>>,
                    <<"origin", req.origin>>, <<"debug", req.debug>>,
                    <<"force", req.force>>>>
        stack == req.application_stack
        \* application_stack["requirements_lock"] raises KeyError when absent
        project == IF {"requirements", "requirements_lock"} \subseteq DictKeys(stack)
                   THEN ProjectFromStrings(DictGet(stack, "requirements"),
                            DictGet(stack, "requirements_lock"), "None")
                   ELSE [raised |-> "KeyError"]
        parameters == DictPop(DictSet(locals, "whitelisted_sources",
                                      whitelisted_sources), "force")
        force == ~ConsultCache(req.force)
        cached_document_id ==
            ProvenanceCachedDocumentId(project, req.origin, whitelisted_sources)
        hit == /\ ~force
               /\ cached_document_id \in DOMAIN w.provenanceCache
               /\ Fresh(w.provenanceCache[cached_document_id], timestamp_now)
        scheduled == _do_schedule(w, parameters, ProvenanceCheckerPrefix, runner_ok)
        reads == [NoCalls EXCEPT !.graph = 1, !.cache_get = IF force THEN 0 ELSE 1]
    IN  IF project.raised # "None"
        THEN [w |-> w, raised |-> "None",
              response |-> [parameters |-> locals,
                            error |-> "Invalid application stack supplied"],
              status |-> 400, calls |-> NoCalls]
        ELSE IF hit
        THEN [w |-> [w EXCEPT !.provenanceCache[cached_document_id].timestamp =
                                  timestamp_now],
              raised |-> "None",
              response |-> [analysis_id |->
                                w.provenanceCache[cached_document_id].analysis_id,
                            cached |-> "True",
                            parameters |-> parameters],
              status |-> 202, calls |-> reads]
        ELSE IF scheduled.raised # "None"
        THEN [w |-> w, raised |-> scheduled.raised,
              response |-> scheduled.response, status |-> scheduled.status,
              calls |-> [reads EXCEPT !.dispatch = 1]]
        ELSE [w |-> [scheduled.w EXCEPT
                        !.provenanceCache =
                            IF scheduled.status = 202
                            THEN Upsert(@, cached_document_id,
                                   [analysis_id |-> scheduled.response.analysis_id,
                                    timestamp |-> timestamp_now])
                            ELSE @],
              raised |-> "None",
              response |-> scheduled.response, status |-> scheduled.status,
              calls |-> [reads EXCEPT !.dispatch = 1,
                             !.cache_put = IF scheduled.status = 202 THEN 1 ELSE 0]]

post_provenance_python(w, req, whitelisted_sources, runner_ok, timestamp_now) ==
    LET locals == <<<<"application_stack", req.application_stack>>,
                    <<"origin", req.origin>>, <<"debug", req.debug>>,
                    <<"force", req.force>>>>
        stack == req.application_stack
        \* application_stack["requirements_lock"] raises KeyError when absent
        project == IF {"requirements", "requirements_lock"} \subseteq DictKeys(stack)
                   THEN ProjectFromStrings(DictGet(stack, "requirements"),
                            DictGet(stack, "requirements_lock"), "None")
                   ELSE [raised |-> "KeyError"]
        parameters == DictPop(DictSet(locals, "whitelisted_sources",
                                      whitelisted_sources), "force")
        force == ~ConsultCache(req.force)
        cached_document_id ==
            ProvenanceCachedDocumentId(project, req.origin, whitelisted_sources)
        hit == /\ ~force
               /\ cached_document_id \in DOMAIN w.provenanceCache
               /\ Fresh(w.provenanceCache[cached_document_id], timestamp_now)
        scheduled == _do_schedule(w, parameters, ProvenanceCheckerPrefix, runner_ok)
        reads == [NoCalls EXCEPT !.graph = 1, !.cache_get = IF force THEN 0 ELSE 1]
    IN  IF project.raised # "None"
        THEN [w |-> w, raised |-> "None",
              response |-> [parameters |-> locals,
                            error |-> "Invalid application stack supplied"],
              status |-> 400, calls |-> NoCalls]
        ELSE IF hit
        THEN [w |-> w, raised |-> "None",
              response |-> [analysis_id |->
                                w.provenanceCache[cached_document_id].analysis_id,
                            cached |-> "True",
                            parameters |-> parameters],
              status |-> 202, calls |-> reads]
        ELSE IF scheduled.raised # "None"
        THEN [w |-> w, raised |-> scheduled.raised,
              response |-> scheduled.response, status |-> scheduled.status,
              calls |-> [reads EXCEPT !.dispatch = 1]]
        ELSE [w |-> [scheduled.w EXCEPT
                        !.provenanceCache =
                            IF scheduled.status = 202
                            THEN Upsert(@, cached_document_id,
                                   [analysis_id |-> scheduled.response.analysis_id,
                                    timestamp |-> timestamp_now])
                            ELSE @],
              raised |-> "None",
              response |-> scheduled.response, status |-> scheduled.status,
              calls |-> [reads EXCEPT !.dispatch = 1,
                             !.cache_put = IF scheduled.status = 202 THEN 1 ELSE 0]]

(* The parameters post_advise_python echoes: locals() with the three members
   of input moved to the top level, without input and force. *)
AdviseParameters(req) ==
    LET locals == <<<<"input", "input">>,
                    <<"recommendation_type", req.recommendation_type>>,
                    <<"count", req.count>>, <<"limit", req.limit>>,
                    <<"limit_latest_versions", req.limit_latest_versions>>,
                    <<"origin", req.origin>>, <<"debug", req.debug>>,
                    <<"force", req.force>>>>
        p1 == DictSet(locals, "application_stack", req.application_stack)
        p2 == DictSet(p1, "runtime_environment", req.runtime_environment)
        p3 == DictSet(p2, "library_usage", req.library_usage)
    IN  DictPop(DictPop(p3, "input"), "force")

(* The document id taken over debug as well. *)
AdviseCachedDocumentId_WithDebug(project, parameters, recommendation_type, origin) ==
    _compute_digest_params(
        project.to_dict \o
        <<<<"count", DictGet(parameters, "count")>>,
          <<"limit", DictGet(parameters, "limit")>>,
          <<"library_usage", DictGet(parameters, "library_usage")>>,
          <<"limit_latest_versions", DictGet(parameters, "limit_latest_versions")>>,
          <<"recommendation_type", recommendation_type>>,
          <<"origin", origin>>,
          <<"debug", DictGet(parameters, "debug")>>>>)

AdviseCachedDocumentId(project, parameters, recommendation_type, origin) ==
    _compute_digest_params(
        project.to_dict \o
        <<<<"count", DictGet(parameters, "count")>>,
          <<"limit", DictGet(parameters, "limit")>>,
          <<"library_usage", DictGet(parameters, "library_usage")>>,
          <<"limit_latest_versions", DictGet(parameters, "limit_latest_versions")>>,
          <<"recommendation_type", recommendation_type>>,
          <<"origin", origin>>>>)

post_advise_python(w, req, runner_ok, timestamp_now) ==
    LET parameters == AdviseParameters(req)
        force == ~ConsultCache(req.force)
        stack == DictGet(parameters, "application_stack")
        \* application_stack.get("requirements_lock") is None when absent
        project == IF "requirements" \in DictKeys(stack)
                   THEN ProjectFromStrings(DictGet(stack, "requirements"),
                            IF "requirements_lock" \in DictKeys(stack)
                            THEN DictGet(stack, "requirements_lock") ELSE "None",
                            DictGet(parameters, "runtime_environment"))
                   ELSE [raised |-> "KeyError"]
        cached_document_id ==
            AdviseCachedDocumentId(project, parameters, req.recommendation_type,
                                   req.origin)
        hit == /\ ~force
               /\ cached_document_id \in DOMAIN w.advisersCache
               /\ Fresh(w.advisersCache[cached_document_id], timestamp_now)
        scheduled == _do_schedule(w, parameters, AdviserPrefix, runner_ok)
        reads == [NoCalls EXCEPT !.cache_get = IF force THEN 0 ELSE 1]
    IN  IF project.raised # "None"
        THEN [w |-> w, raised |-> "None",
              response |-> [parameters |-> parameters,
                            error |-> "Invalid application stack supplied"],
              status |-> 400, calls |-> NoCalls]
        ELSE IF hit
        THEN [w |-> w, raised |-> "None",
              response |-> [analysis_id |->
                                w.advisersCache[cached_document_id].analysis_id,
                            cached |-> "True",
                            parameters |-> parameters],
              status |-> 202, calls |-> reads]
        ELSE IF scheduled.raised # "None"
        THEN [w |-> w, raised |-> scheduled.raised,
              response |-> scheduled.response, status |-> scheduled.status,
              calls |-> [reads EXCEPT !.dispatch = 1]]
        ELSE [w |-> [scheduled.w EXCEPT
                        !.advisersCache =
                            IF scheduled.status = 202
                            THEN Upsert(@, cached_document_id,
                                   [analysis_id |-> scheduled.response.analysis_id,
                                    timestamp |-> timestamp_now])
                            ELSE @],
              raised |-> "None",
              response |-> scheduled.response, status |-> scheduled.status,
              calls |-> [reads EXCEPT !.dispatch = 1,
                             !.cache_put = IF scheduled.status = 202 THEN 1 ELSE 0]]

---------------------------------------------------------------------------
(* Build logs. *)

(* BuildLogsStore.store_document names the document after its content. *)
BuildlogDocumentId(log_info) == <<"buildlog", "-", log_info>>

(* post_buildlog: store the log, answer with its document id. *)
post_buildlog(w, log_info) ==
    LET document_id == BuildlogDocumentId(log_info)
    IN  [w |-> [w EXCEPT !.buildLogs = Upsert(@, document_id, log_info)],
         raised |-> "None",
         response |-> <<<<"document_id", document_id>>>>,
         status |-> 202,
         calls |-> [NoCalls EXCEPT !.buildlog_put = 1]]

(* The document id of the build-log analyses cache: the digest of locals(),
   taken before force is popped from it. *)
BuildlogCachedDocumentId(req) ==
    _compute_digest_params(<<<<"log_info", req.log_info>>, <<"force", req.force>>>>)

post_buildlog_analyze(w, req, runner_ok) ==
    LET locals == <<<<"log_info", req.log_info>>, <<"force", req.force>>>>
        cached_document_id == BuildlogCachedDocumentId(req)
        popped == DictPop(locals, "force")
        force == ~ConsultCache(req.force)
        stored == post_buildlog(w, req.log_info)
        parameters == DictPop(DictUpdate(popped, stored.response), "log_info")
        scheduled == _do_schedule(stored.w, parameters, BuildAnalyzePrefix, runner_ok)
        reads == [NoCalls EXCEPT !.cache_get = IF force THEN 0 ELSE 1,
                                 !.buildlog_put = 1, !.dispatch = 1]
    IN  IF ~force /\ cached_document_id \in DOMAIN w.buildlogsCache
        THEN [w |-> w, raised |-> "None",
              response |-> [analysis_id |->
                                w.buildlogsCache[cached_document_id].analysis_id,
                            cached |-> "True",
                            parameters |-> popped],
              status |-> 202,
              calls |-> [NoCalls EXCEPT !.cache_get = 1]]
        ELSE IF scheduled.raised # "None"
        THEN [w |-> stored.w, raised |-> scheduled.raised,
              response |-> scheduled.response, status |-> scheduled.status,
              calls |-> reads]
        ELSE [w |-> [scheduled.w EXCEPT
                        !.buildlogsCache =
                            IF scheduled.status = 202
                            THEN Upsert(@, cached_document_id,
                                   [analysis_id |-> scheduled.response.analysis_id])
                            ELSE @],
              raised |-> "None",
              response |-> scheduled.response, status |-> scheduled.status,
              calls |-> [reads EXCEPT
                             !.cache_put = IF scheduled.status = 202 THEN 1 ELSE 0]]

---------------------------------------------------------------------------
(* The composite build analysis. *)

(* None where a job handle is expected. *)
NoHandle == <<>>

(* The empty dict {} a response slot starts with. *)
EmptyDict == [k \in {} |-> <<>>]

(* A key counts as set as soon as the payload holds it, whatever its value. *)
IsSet_KeyPresent(build_detail, key) == key \in DictKeys(build_detail)

(* "if build_detail.get(key)": the key is there and its value is truthy. *)
IsSet(build_detail, key) ==
    key \in DictKeys(build_detail) /\ Truthy(DictGet(build_detail, key))

(* The composite goes on whatever a sub-operation answered. *)
ShortCircuits_Never(status_code) == FALSE

(* The composite stops only on a server error. *)
ShortCircuits_ServerErrors(status_code) == status_code >= 500

(* "if ..._status != 202: return response, ..._status" *)
ShortCircuits(status_code) == status_code # 202

(* The check of an empty payload left out. *)
NoInformation_Never(build_detail) == FALSE

(* None of the three keys is set. *)
NoInformation(build_detail) ==
    /\ ~IsSet(build_detail, "output_image")
    /\ ~IsSet(build_detail, "base_image")
    /\ ~IsSet(build_detail, "build_log")

(* response.get(key, {}).get("analysis_id") *)
AnalysisIdOf(body) ==
    IF "analysis_id" \in DOMAIN body THEN body.analysis_id ELSE NoHandle

(* A sub-operation that is not invoked leaves the stores and its slot of the
   response as they are. *)
Skipped(w) ==
    [w |-> w, raised |-> "None", response |-> EmptyDict, status |-> 202,
     calls |-> NoCalls]

AddCalls(a, b) == [k \in DOMAIN a |-> a[k] + b[k]]

(* What post_build notes of a sub-operation it invoked. *)
SubCall(name, r) ==
    [name |-> name, response |-> r.response, status |-> r.status,
     raised |-> r.raised]

(* The one member of a set of one. *)
Only(S) == CHOOSE x \in S : TRUE

(* post_build: image analysis of the output image, then of the base image,
   then the build log analysis, each only if its key is set; the first
   sub-operation that does not answer 202 ends the composite.  env holds the
   registry's answer for each image and the name of the sub-operation whose
   dispatch the runner refuses, if any.  Each sub-operation is evaluated
   once, on the stores the one before it left. *)
post_build(w, req, env) ==
    LET build_detail == req.build_detail
        response == [base_image_analysis |-> EmptyDict,
                     output_image_analysis |-> EmptyDict,
                     build_log_analysis |-> EmptyDict]
        output_set == IsSet(build_detail, "output_image")
        base_set == IsSet(build_detail, "base_image")
        log_set == IsSet(build_detail, "build_log")
        Ends(set, r) == set /\ (r.raised # "None" \/ ShortCircuits(r.status))
        Sub(set, name, r) == IF set THEN <<SubCall(name, r)>> ELSE <<>>
        AfterLog(output, base, log) ==
            LET subs2 == Sub(output_set, "output_image", output)
                             \o Sub(base_set, "base_image", base)
                subs3 == subs2 \o Sub(log_set, "build_log", log)
                response1 == [response EXCEPT
                                 !.output_image_analysis = output.response]
                response2 == [response1 EXCEPT
                                 !.base_image_analysis = base.response]
                response3 == [response2 EXCEPT
                                 !.build_log_analysis = log.response]
                calls2 == AddCalls(output.calls, base.calls)
                calls3 == AddCalls(calls2, log.calls)
            IN  IF Ends(output_set, output)
                THEN [w |-> output.w, raised |-> output.raised,
                      response |-> IF output.raised # "None" THEN output.response
                                   ELSE response1,
                      status |-> output.status, calls |-> output.calls,
                      subs |-> Sub(output_set, "output_image", output)]
                ELSE IF Ends(base_set, base)
                THEN [w |-> base.w, raised |-> base.raised,
                      response |-> IF base.raised # "None" THEN base.response
                                   ELSE response2,
                      status |-> base.status, calls |-> calls2, subs |-> subs2]
                ELSE IF Ends(log_set, log)
                THEN [w |-> log.w, raised |-> log.raised,
                      response |-> IF log.raised # "None" THEN log.response
                                   ELSE response3,
                      status |-> log.status, calls |-> calls3, subs |-> subs3]
                ELSE IF NoInformation(build_detail)
                THEN [w |-> log.w, raised |-> "None",
                      response |->
                          [error |-> "Bad Request! No information provided"],
                      status |-> 400, calls |-> calls3, subs |-> subs3]
                ELSE [w |-> log.w, raised |-> "None", response |-> response3,
                      status |-> 202, calls |-> calls3, subs |-> subs3]
        AfterBase(output, base) ==
            LET log_info ==
                    DictSet(DictSet(build_detail, "output_image_analysis_id",
                                    AnalysisIdOf(output.response)),
                            "base_image_analysis_id", AnalysisIdOf(base.response))
            IN  Only({AfterLog(output, base, log) :
                        log \in {IF log_set /\ ~Ends(output_set, output)
                                    /\ ~Ends(base_set, base)
                                 THEN post_buildlog_analyze(base.w,
                                          [log_info |-> log_info,
                                           force |-> req.force],
                                          env.refused # "build_log")
                                 ELSE Skipped(base.w)}})
        AfterOutput(output) ==
            Only({AfterBase(output, base) :
                    base \in {IF base_set /\ ~Ends(output_set, output)
                              THEN post_analyze(output.w,
                                       [image |-> DictGet(build_detail, "base_image"),
                                        debug |-> req.debug,
                                        registry_user |-> "None",
                                        registry_password |-> "None",
                                        environment_type |-> req.environment_type,
                                        origin |-> req.origin,
                                        verify_tls |-> req.registry_verify_tls,
                                        force |-> req.force],
                                       env.base_image, env.refused # "base_image")
                              ELSE Skipped(output.w)}})
    IN  Only({AfterOutput(output) :
                output \in {IF output_set
                            THEN post_analyze(w,
                                     [image |-> DictGet(build_detail, "output_image"),
                                      debug |-> req.debug,
                                      registry_user |-> req.registry_user,
                                      registry_password |-> req.registry_password,
                                      environment_type |-> req.environment_type,
                                      origin |-> req.origin,
                                      verify_tls |-> req.registry_verify_tls,
                                      force |-> req.force],
                                     env.output_image, env.refused # "output_image")
                            ELSE Skipped(w)}})

---------------------------------------------------------------------------
(* Job lifecycle queries. *)

THOTH_MIDDLETIER_NAMESPACE == "thoth-middletier"
THOTH_BACKEND_NAMESPACE == "thoth-backend"

(* The result stores never return a document. *)
StoreHas_BuildLogsOnly(w, adapter_class, document_id) ==
    adapter_class = "BuildLogsStore" /\ document_id \in DOMAIN w.buildLogs

(* adapter.retrieve_document raises NotFoundError unless the store holds the
   document. *)
StoreHas(w, adapter_class, document_id) ==
    IF adapter_class = "BuildLogsStore"
    THEN document_id \in DOMAIN w.buildLogs
    ELSE <<adapter_class, document_id>> \in w.results

(* _OPENSHIFT.get_job_status_report and get_job_log raise NotFoundException
   for a job the scheduler does not know. *)
JobKnown(w, job_id, namespace) == job_id \in DOMAIN w.jobs

(* Only a running job counts as in progress. *)
InProgress_RunningOnly(status) == status.state = "running"

(* Every terminated job counts as in progress, whatever its exit code. *)
InProgress_AnyExitCode(status) ==
    status.state = "running" \/ status.state = "terminated"

(* The job has not failed: it runs, or it ended well and its result is about
   to appear in the result store. *)
InProgress(status) ==
    \/ status.state = "running"
    \/ (status.state = "terminated" /\ status.exit_code = 0)

(* A registered job is not taken as being scheduled. *)
BeingScheduled_NotRegistered(status) == status.state \in {"scheduling", "waiting"}

BeingScheduled(status) == status.state \in {"scheduling", "waiting", "registered"}

(* "except Exception: pass" *)
CaughtAsNotFound_Any(exception) == TRUE

(* "except NotFoundError: pass": the result store's exception class. *)
CaughtAsNotFound_StoreError(exception) == exception = "NotFoundError"

(* "except OpenShiftNotFound: pass" *)
CaughtAsNotFound(exception) == exception = "OpenShiftNotFound"

(* The body of the inner try of _get_document: the answer drawn from the
   scheduler's report, or the exception raised. *)
JobStatusAnswer(w, analysis_id, namespace, parameters) ==
    LET status == w.jobs[analysis_id]
    IN  IF ~JobKnown(w, analysis_id, namespace)
        THEN [raised |-> "OpenShiftNotFound"]
        ELSE IF InProgress(status)
        THEN [raised |-> "None",
              response |-> [error |-> "Analysis is still in progress",
                            status |-> status, parameters |-> parameters],
              status |-> 202]
        ELSE IF status.state = "terminated"
        THEN [raised |-> "None",
              response |-> [error |-> "Analysis was not successful",
                            status |-> status, parameters |-> parameters],
              status |-> 400]
        ELSE IF BeingScheduled(status)
        THEN [raised |-> "None",
              response |-> [error |-> "Analysis is being scheduled",
                            status |-> status, parameters |-> parameters],
              status |-> 202]
        ELSE [raised |-> "ValueError"]

(* The scheduler asked before the result store is read. *)
_get_document_SchedulerFirst(w, adapter_class, analysis_id, name_prefix, namespace) ==
    LET parameters == <<<<"analysis_id", analysis_id>>>>
        answer == JobStatusAnswer(w, analysis_id, namespace, parameters)
        asked == [NoCalls EXCEPT !.store_get = 1, !.scheduler = 1]
    IN  IF name_prefix # <<>> /\ ~StartsWith(analysis_id, name_prefix)
        THEN [w |-> w, raised |-> "None",
              response |-> [error |-> "Wrong analysis id provided",
                            parameters |-> parameters],
              status |-> 400, calls |-> NoCalls]
        ELSE IF Truthy(namespace) /\ answer.raised = "None"
        THEN [w |-> w, raised |-> "None", response |-> answer.response,
              status |-> answer.status,
              calls |-> [NoCalls EXCEPT !.scheduler = 1]]
        ELSE IF StoreHas(w, adapter_class, analysis_id)
        THEN [w |-> w, raised |-> "None",
              response |-> [document |-> <<adapter_class, analysis_id>>],
              status |-> 200, calls |-> asked]
        ELSE [w |-> w, raised |-> "None",
              response |-> [error |-> "Requested result was not found",
                            parameters |-> parameters],
              status |-> 404, calls |-> asked]

_get_document(w, adapter_class, analysis_id, name_prefix, namespace) ==
    LET parameters == <<<<"analysis_id", analysis_id>>>>
        answer == JobStatusAnswer(w, analysis_id, namespace, parameters)
        asked == [NoCalls EXCEPT !.store_get = 1, !.scheduler = 1]
    IN  IF name_prefix # <<>> /\ ~StartsWith(analysis_id, name_prefix)
        THEN [w |-> w, raised |-> "None",
              response |-> [error |-> "Wrong analysis id provided",
                            parameters |-> parameters],
              status |-> 400, calls |-> NoCalls]
        ELSE IF StoreHas(w, adapter_class, analysis_id)
        THEN [w |-> w, raised |-> "None",
              response |-> [document |-> <<adapter_class, analysis_id>>],
              status |-> 200, calls |-> [NoCalls EXCEPT !.store_get = 1]]
        ELSE IF Truthy(namespace) /\ answer.raised = "None"
        THEN [w |-> w, raised |-> "None", response |-> answer.response,
              status |-> answer.status, calls |-> asked]
        ELSE IF Truthy(namespace) /\ ~CaughtAsNotFound(answer.raised)
        THEN [w |-> w, raised |-> answer.raised,
              response |-> [error |-> "Internal server error occurred"],
              status |-> 500, calls |-> asked]
        ELSE [w |-> w, raised |-> "None",
              response |-> [error |-> "Requested result was not found",
                            parameters |-> parameters],
              status |-> 404,
              calls |-> IF Truthy(namespace) THEN asked
                        ELSE [NoCalls EXCEPT !.store_get = 1]]

(* A job the scheduler does not know answered with an empty log. *)
_get_job_log_EmptyLogForUnknown(w, parameters, name_prefix, namespace) ==
    LET job_id == DictGet(parameters, "analysis_id")
    IN  IF ~StartsWith(job_id, name_prefix)
        THEN [w |-> w, raised |-> "None",
              response |-> [error |-> "Wrong analysis id provided",
                            parameters |-> parameters],
              status |-> 400, calls |-> NoCalls]
        ELSE [w |-> w, raised |-> "None",
              response |-> [parameters |-> parameters,
                            log |-> IF job_id \in DOMAIN w.jobs
                                    THEN <<"log", job_id>> ELSE <<>>],
              status |-> 200, calls |-> [NoCalls EXCEPT !.scheduler = 1]]

_get_job_log(w, parameters, name_prefix, namespace) ==
    LET job_id == DictGet(parameters, "analysis_id")
    IN  IF ~StartsWith(job_id, name_prefix)
        THEN [w |-> w, raised |-> "None",
              response |-> [error |-> "Wrong analysis id provided",
                            parameters |-> parameters],
              status |-> 400, calls |-> NoCalls]
        ELSE IF ~JobKnown(w, job_id, namespace)
        THEN [w |-> w, raised |-> "None",
              response |-> [parameters |-> parameters,
                            error |-> "No analysis with the id was found"],
              status |-> 404, calls |-> [NoCalls EXCEPT !.scheduler = 1]]
        ELSE [w |-> w, raised |-> "None",
              response |-> [parameters |-> parameters, log |-> <<"log", job_id>>],
              status |-> 200, calls |-> [NoCalls EXCEPT !.scheduler = 1]]

(* On success _get_job_status returns the body alone, which the framework
   sends with status 200. *)
_get_job_status(w, parameters, name_prefix, namespace) ==
    LET job_id == DictGet(parameters, "analysis_id")
    IN  IF ~StartsWith(job_id, name_prefix)
        THEN [w |-> w, raised |-> "None",
              response |-> [error |-> "Wrong analysis id provided",
                            parameters |-> parameters],
              status |-> 400, calls |-> NoCalls]
        ELSE IF ~JobKnown(w, job_id, namespace)
        THEN [w |-> w, raised |-> "None",
              response |-> [parameters |-> parameters,
                            error |-> "Requested status was not found"],
              status |-> 404, calls |-> [NoCalls EXCEPT !.scheduler = 1]]
        ELSE [w |-> w, raised |-> "None",
              response |-> [parameters |-> parameters, status |-> w.jobs[job_id]],
              status |-> 200, calls |-> [NoCalls EXCEPT !.scheduler = 1]]

Locals(analysis_id) == <<<<"analysis_id", analysis_id>>>>

get_analyze(w, analysis_id) ==
    _get_document(w, "AnalysisResultsStore", analysis_id, PackageExtractPrefix,
                  THOTH_MIDDLETIER_NAMESPACE)
get_analyze_log(w, analysis_id) ==
    _get_job_log(w, Locals(analysis_id), PackageExtractPrefix,
                 THOTH_MIDDLETIER_NAMESPACE)
get_analyze_status(w, analysis_id) ==
    _get_job_status(w, Locals(analysis_id), PackageExtractPrefix,
                    THOTH_MIDDLETIER_NAMESPACE)

get_provenance_python(w, analysis_id) ==
    _get_document(w, "ProvenanceResultsStore", analysis_id,
                  ProvenanceCheckerPrefix, THOTH_BACKEND_NAMESPACE)
get_provenance_python_log(w, analysis_id) ==
    _get_job_log(w, Locals(analysis_id), ProvenanceCheckerPrefix,
                 THOTH_BACKEND_NAMESPACE)
get_provenance_python_status(w, analysis_id) ==
    _get_job_status(w, Locals(analysis_id), ProvenanceCheckerPrefix,
                    THOTH_BACKEND_NAMESPACE)

get_advise_python(w, analysis_id) ==
    _get_document(w, "AdvisersResultsStore", analysis_id, AdviserPrefix,
                  THOTH_BACKEND_NAMESPACE)
get_advise_python_log(w, analysis_id) ==
    _get_job_log(w, Locals(analysis_id), AdviserPrefix, THOTH_BACKEND_NAMESPACE)
get_advise_python_status(w, analysis_id) ==
    _get_job_status(w, Locals(analysis_id), AdviserPrefix, THOTH_BACKEND_NAMESPACE)

get_buildlog_analyze(w, analysis_id) ==
    _get_document(w, "BuildLogsAnalysisResultsStore", analysis_id,
                  BuildAnalyzePrefix, THOTH_BACKEND_NAMESPACE)

(* get_buildlog passes neither a prefix nor a namespace. *)
get_buildlog(w, document_id) ==
    _get_document(w, "BuildLogsStore", document_id, <<>>, "None")

(* The entry of the by-digest index returned as it is, not resolved. *)
get_analyze_by_hash_Unresolved(w, image_hash) ==
    IF image_hash \notin DOMAIN w.analysisByDigest
    THEN [w |-> w, raised |-> "None",
          response |-> [error |-> "No analysis was performed for the image",
                        parameters |-> <<<<"image_hash", image_hash>>>>],
          status |-> 404, calls |-> [NoCalls EXCEPT !.by_digest_get = 1]]
    ELSE [w |-> w, raised |-> "None",
          response |-> w.analysisByDigest[image_hash],
          status |-> 200, calls |-> [NoCalls EXCEPT !.by_digest_get = 1]]

(* get_analyze_by_hash: the handle the by-digest index holds for the image's
   digest, resolved as get_analyze resolves it; 404 when the index has no
   entry for the digest. *)
(* A digest without an index entry passed on as if it were a handle. *)
get_analyze_by_hash_PassesDigest(w, image_hash) ==
    LET analysis_id == IF image_hash \in DOMAIN w.analysisByDigest
                       THEN w.analysisByDigest[image_hash].analysis_id
                       ELSE <<"package-extract", "-", image_hash>>
        resolved == _get_document(w, "AnalysisResultsStore", analysis_id,
                                  PackageExtractPrefix, THOTH_MIDDLETIER_NAMESPACE)
    IN  [resolved EXCEPT !.calls.by_digest_get = 1]

get_analyze_by_hash(w, image_hash) ==
    IF image_hash \notin DOMAIN w.analysisByDigest
    THEN [w |-> w, raised |-> "None",
          response |-> [error |-> "No analysis was performed for the image",
                        parameters |-> <<<<"image_hash", image_hash>>>>],
          status |-> 404, calls |-> [NoCalls EXCEPT !.by_digest_get = 1]]
    ELSE LET resolved == _get_document(w, "AnalysisResultsStore",
                             w.analysisByDigest[image_hash].analysis_id,
                             PackageExtractPrefix, THOTH_MIDDLETIER_NAMESPACE)
         IN  [resolved EXCEPT !.calls.by_digest_get = 1]

---------------------------------------------------------------------------
(* Requests and the answers of the collaborators. *)

BoolStr == {"False", "True"}

Digests == {"sha256:d1", "sha256:d2"}

ImageErrors ==
    {"ImageBadRequestError", "ImageManifestUnknownError",
     "ImageAuthenticationRequired", "ImageError"}

OkMetadata == {[kind |-> "ok", digest |-> d] : d \in Digests}

ErrorMetadata == {[kind |-> e, digest |-> "None"] : e \in ImageErrors}

AnalyzeRequests ==
    [image : {"quay.io/thoth/app"}, debug : BoolStr, registry_user : {"None"},
     registry_password : {"None"}, environment_type : {"None", "runtime"},
     origin : {"None"}, verify_tls : {"True"}, force : BoolStr]

(* <<request, answer of the registry>> *)
AnalyzeInputs ==
    (AnalyzeRequests \X OkMetadata)
    \cup ({req \in AnalyzeRequests :
              req.debug = "False" /\ req.environment_type = "None"}
          \X ErrorMetadata)

StackA == <<<<"requirements", "reqA">>, <<"requirements_lock", "lockA">>>>
StackNoLock == <<<<"requirements", "reqA">>>>
StackBad == <<<<"requirements", "malformed">>, <<"requirements_lock", "lockA">>>>

WhitelistedSources == {"pypi", "pypi,internal"}

(* <<request, answer of the graph database>> *)
ProvenanceInputs ==
    ([application_stack : {StackA}, origin : {"None"}, debug : BoolStr,
      force : BoolStr] \X WhitelistedSources)
    \cup ([application_stack : {StackNoLock, StackBad}, origin : {"None"},
           debug : {"False"}, force : BoolStr] \X {"pypi"})

AdviseRequests ==
    [application_stack : {StackA, StackNoLock},
     runtime_environment : {"None"}, library_usage : {"None"},
     recommendation_type : {"stable"}, count : {"None"}, limit : {"None"},
     limit_latest_versions : {"None"}, origin : {"None"},
     debug : BoolStr, force : BoolStr]
    \cup
    [application_stack : {StackBad},
     runtime_environment : {"None"}, library_usage : {"None"},
     recommendation_type : {"stable"}, count : {"None"}, limit : {"None"},
     limit_latest_versions : {"None"}, origin : {"None"},
     debug : {"False"}, force : BoolStr]

(* The build logs sent for analysis: log_info is a mapping. *)
LogA == <<<<"build_log", "log1">>>>
LogB == <<<<"build_log", "log2">>, <<"base_image", "fedora:30">>>>

BuildlogRequests == [log_info : {LogA, LogB}, force : BoolStr]

Prefixes ==
    {PackageExtractPrefix, ProvenanceCheckerPrefix, AdviserPrefix,
     BuildAnalyzePrefix}

(* The ids a client asks about: every handle the dispatcher can issue under
   any prefix, and texts that are no handle at all. *)
QueryIds ==
    {p \o <<Digit[n]>> : p \in Prefixes, n \in 1..MaxDispatch}
    \cup {<<>>, <<"package-extract">>, AdviserPrefix,
          BuildlogDocumentId(LogA)}

ExitCodes == {0, 1, 7}

---------------------------------------------------------------------------
(* One request handled from start to end.  Requests are handled one at a
   time: last holds the request being answered until its response is
   returned. *)

Idle == last.op = "none"

(* The threads of one worker process. *)
Threads == {"t1", "t2"}

(* What the request found where it looks first: the cache record under its
   document id, or the result document and the job. *)
Before(cache, key) ==
    IF key \in DOMAIN cache
    THEN [hit |-> TRUE, key |-> key, record |-> cache[key]]
    ELSE [hit |-> FALSE, key |-> key]

Answered(op, req, env, before, r) ==
    /\ analysesCache' = r.w.analysesCache
    /\ provenanceCache' = r.w.provenanceCache
    /\ advisersCache' = r.w.advisersCache
    /\ buildlogsCache' = r.w.buildlogsCache
    /\ analysisByDigest' = r.w.analysisByDigest
    /\ buildLogs' = r.w.buildLogs
    /\ results' = r.w.results
    /\ jobs' = r.w.jobs
    /\ dispatched' = r.w.dispatched
    /\ last' = [op |-> op, req |-> req, env |-> env, before |-> before,
                response |-> r.response, status |-> r.status,
                raised |-> r.raised, calls |-> r.calls, at |-> now]
    /\ UNCHANGED <<now, inflight, graph>>

Handled(op, req, env, before, r) ==
    /\ r.w.dispatched <= MaxDispatch
    /\ Answered(op, req, env, before, r)

(* The runner's answer matters only to a request that reaches the runner. *)
RunnerOutcomes(r) == IF r.calls.dispatch > 0 THEN BOOLEAN ELSE {TRUE}

AnalyzeKey(req, md) ==
    IF md.kind = "ok"
    THEN AnalyzeCachedDocumentId(md.digest, AnalyzeParameters(req))
    ELSE <<>>

PostAnalyze ==
    /\ Idle
    /\ \E in \in AnalyzeInputs :
       \E runner_ok \in RunnerOutcomes(post_analyze(World, in[1], in[2], TRUE)) :
        Handled("post_analyze", in[1], in[2],
                Before(analysesCache, AnalyzeKey(in[1], in[2])),
                post_analyze(World, in[1], in[2], runner_ok))

ProvenanceKey(req, whitelisted_sources) ==
    LET stack == req.application_stack
        project == IF {"requirements", "requirements_lock"} \subseteq DictKeys(stack)
                   THEN ProjectFromStrings(DictGet(stack, "requirements"),
                            DictGet(stack, "requirements_lock"), "None")
                   ELSE [raised |-> "KeyError"]
    IN  IF project.raised = "None"
        THEN ProvenanceCachedDocumentId(project, req.origin, whitelisted_sources)
        ELSE <<>>

PostProvenancePython ==
    /\ Idle
    /\ \E in \in ProvenanceInputs :
       \E runner_ok \in RunnerOutcomes(
                         post_provenance_python(World, in[1], in[2], TRUE, now)) :
        Handled("post_provenance_python", in[1], in[2],
                Before(provenanceCache, ProvenanceKey(in[1], in[2])),
                post_provenance_python(World, in[1], in[2], runner_ok, now))

AdviseKey(req) ==
    LET parameters == AdviseParameters(req)
        stack == req.application_stack
        project == ProjectFromStrings(DictGet(stack, "requirements"),
                       IF "requirements_lock" \in DictKeys(stack)
                       THEN DictGet(stack, "requirements_lock") ELSE "None",
                       req.runtime_environment)
    IN  IF project.raised = "None"
        THEN AdviseCachedDocumentId(project, parameters,
                                    req.recommendation_type, req.origin)
        ELSE <<>>

PostAdvisePython ==
    /\ Idle
    /\ \E req \in AdviseRequests :
       \E runner_ok \in RunnerOutcomes(post_advise_python(World, req, TRUE, now)) :
        Handled("post_advise_python", req, "None",
                Before(advisersCache, AdviseKey(req)),
                post_advise_python(World, req, runner_ok, now))

PostBuildlogAnalyze ==
    /\ Idle
    /\ \E req \in BuildlogRequests :
       \E runner_ok \in RunnerOutcomes(post_buildlog_analyze(World, req, TRUE)) :
        Handled("post_buildlog_analyze", req, "None",
                Before(buildlogsCache, BuildlogCachedDocumentId(req)),
                post_buildlog_analyze(World, req, runner_ok))

(* The response is returned to the client. *)
Return ==
    /\ ~Idle
    /\ last' = [op |-> "none"]
    /\ UNCHANGED <<analysesCache, provenanceCache, advisersCache, buildlogsCache,
                   analysisByDigest, buildLogs, results, jobs, dispatched, now, inflight, graph>>

(* The clock advances between requests. *)
Tick ==
    /\ Idle
    /\ now < MaxTime
    /\ now' = now + 1
    /\ UNCHANGED <<analysesCache, provenanceCache, advisersCache, buildlogsCache,
                   analysisByDigest, buildLogs, results, jobs, dispatched, last, inflight, graph>>

Init ==
    /\ analysesCache = EmptyStore
    /\ provenanceCache = EmptyStore
    /\ advisersCache = EmptyStore
    /\ buildlogsCache = EmptyStore
    /\ analysisByDigest = EmptyStore
    /\ buildLogs = EmptyStore
    /\ results = {}
    /\ jobs = EmptyStore
    /\ dispatched = 0
    /\ now = 0
    /\ last = [op |-> "none"]
    /\ inflight = [t \in Threads |-> [pc |-> "idle"]]
    /\ graph = [connected |-> FALSE, connects |-> 0,
                pc |-> [t \in Threads |-> "idle"],
                served |-> [t \in Threads |-> 0]]

Next ==
    \/ PostAnalyze
    \/ PostProvenancePython
    \/ PostAdvisePython
    \/ PostBuildlogAnalyze
    \/ Return
    \/ Tick

(* The request orchestrators over the cache stores and the clock. *)
Spec == Init /\ [][Next]_vars

---------------------------------------------------------------------------
(* The composite build analysis over the stores of its sub-operations. *)

MaxBuildDispatch == 3

BuildValues(key) ==
    CASE key = "output_image" -> {"", "quay.io/thoth/app"}
      [] key = "base_image" -> {"fedora:30"}
      [] key = "build_log" -> {"log1"}

(* The payloads: each of the three keys absent, or present with one of its
   values. *)
BuildDetails ==
    {SelectSeq(<<<<"output_image", o>>, <<"base_image", b>>, <<"build_log", l>>>>,
               LAMBDA pair : pair[2] # "absent") :
        o \in BuildValues("output_image") \cup {"absent"},
        b \in BuildValues("base_image") \cup {"absent"},
        l \in BuildValues("build_log") \cup {"absent"}}

BuildRequests ==
    [build_detail : BuildDetails, debug : {"False"}, registry_user : {"user"},
     registry_password : {"secret"}, environment_type : {"None"},
     origin : {"None"}, registry_verify_tls : {"True"}, force : BoolStr]

(* The answers of the registry for the two images, and the sub-operation
   whose job the runner refuses. *)
BuildEnvs ==
    [output_image : {[kind |-> "ok", digest |-> "sha256:d1"],
                     [kind |-> "ImageAuthenticationRequired", digest |-> "None"]},
     base_image : {[kind |-> "ok", digest |-> "sha256:d2"],
                   [kind |-> "ImageManifestUnknownError", digest |-> "None"]},
     refused : {"none", "base_image"}]

(* What the request met is kept in the notes of its sub-operations. *)
PostBuild ==
    /\ Idle
    /\ dispatched < MaxBuildDispatch
    /\ \E req \in BuildRequests, env \in BuildEnvs :
         \E r \in {post_build(World, req, env)} :
             /\ r.w.dispatched <= MaxBuildDispatch
             /\ Answered("post_build", req, "None",
                         [hit |-> FALSE, key |-> <<>>, subs |-> r.subs], r)

NextBuild ==
    \/ PostBuild
    \/ Return

SpecBuild == Init /\ [][NextBuild]_vars

---------------------------------------------------------------------------
(* Requests handled concurrently by the threads of one worker.  A handler
   runs in steps, one for each call that reads or writes what the threads
   share: the cache read, the dispatch, the by-digest write, the cache
   write.  What lies between two such calls is local to the thread. *)

(* <<operation, request, answer of the registry or of the graph database>> *)
ConcurrentInputs ==
    {<<"post_analyze", req, md>> :
        req \in {r \in AnalyzeRequests :
                    r.debug = "False" /\ r.environment_type = "None"},
        md \in OkMetadata}
    \cup
    {<<"post_provenance_python", req, "pypi">> :
        req \in [application_stack : {StackA}, origin : {"None"},
                 debug : {"False"}, force : BoolStr]}

(* The parameters post_provenance_python passes on: locals() with the
   whitelisted sources, without force. *)
ProvenanceParameters(req, whitelisted_sources) ==
    DictPop(DictSet(<<<<"application_stack", req.application_stack>>,
                      <<"origin", req.origin>>, <<"debug", req.debug>>,
                      <<"force", req.force>>>>,
                    "whitelisted_sources", whitelisted_sources), "force")

UnchangedStores ==
    UNCHANGED <<analysisByDigest, buildLogs, results, buildlogsCache,
                advisersCache>>

(* The handler runs up to its cache read: a fresh record ends the request,
   a miss (or force, which skips the read) sends it on to the dispatch. *)
Arrive(t) ==
    /\ Idle
    /\ inflight[t].pc = "idle"
    /\ \E in \in ConcurrentInputs :
         LET op == in[1]
             req == in[2]
             cache == IF op = "post_analyze" THEN analysesCache
                      ELSE provenanceCache
             key == IF op = "post_analyze" THEN AnalyzeKey(req, in[3])
                    ELSE ProvenanceKey(req, in[3])
             hit == /\ ConsultCache(req.force)
                    /\ key \in DOMAIN cache
                    /\ op = "post_provenance_python" => Fresh(cache[key], now)
         IN  inflight' = [inflight EXCEPT ![t] =
                 [pc |-> IF hit THEN "done" ELSE "missed",
                  op |-> op, req |-> req, env |-> in[3], key |-> key,
                  timestamp_now |-> now,
                  analysis_id |-> IF hit THEN cache[key].analysis_id ELSE NoHandle,
                  cached |-> IF hit THEN "True" ELSE "False",
                  raised |-> "None", dispatches |-> 0, seq |-> 0]]
    /\ UnchangedStores
    /\ UNCHANGED <<analysesCache, provenanceCache, jobs, dispatched, now, last,
                   graph>>

(* _do_schedule: the runner registers the job, or refuses and the request
   ends with its exception. *)
Schedule(t) ==
    /\ Idle
    /\ inflight[t].pc = "missed"
    /\ dispatched < MaxDispatch
    /\ \E runner_ok \in BOOLEAN :
         LET me == inflight[t]
             scheduled ==
                 IF me.op = "post_analyze"
                 THEN _do_schedule(World, AnalyzeParameters(me.req),
                                   PackageExtractPrefix, runner_ok)
                 ELSE _do_schedule(World, ProvenanceParameters(me.req, me.env),
                                   ProvenanceCheckerPrefix, runner_ok)
         IN  /\ jobs' = scheduled.w.jobs
             /\ dispatched' = scheduled.w.dispatched
             /\ inflight' = [inflight EXCEPT ![t] =
                    IF scheduled.raised # "None"
                    THEN [me EXCEPT !.pc = "done", !.raised = scheduled.raised,
                                    !.dispatches = @ + 1]
                    ELSE [me EXCEPT !.pc = "scheduled",
                                    !.analysis_id = scheduled.response.analysis_id,
                                    !.dispatches = @ + 1]]
    /\ UnchangedStores
    /\ UNCHANGED <<analysesCache, provenanceCache, now, last, graph>>

(* post_analyze writes the by-digest index before the cache record. *)
StoreByDigest(t) ==
    /\ Idle
    /\ inflight[t].pc = "scheduled"
    /\ inflight[t].op = "post_analyze"
    /\ analysisByDigest' =
           Upsert(analysisByDigest, inflight[t].env.digest,
                  [analysis_id |-> inflight[t].analysis_id,
                   parameters |-> AnalyzeParameters(inflight[t].req),
                   cached |-> "False"])
    /\ inflight' = [inflight EXCEPT ![t].pc = "indexed"]
    /\ UNCHANGED <<analysesCache, provenanceCache, advisersCache, buildlogsCache,
                   buildLogs, results, jobs, dispatched, now, last, graph>>

(* cache.store_document_record: the record of the handle just dispatched,
   with the time the handler read before its cache read. *)
StoreRecord(t) ==
    /\ Idle
    /\ \/ inflight[t].pc = "indexed"
       \/ inflight[t].pc = "scheduled" /\ inflight[t].op = "post_provenance_python"
    /\ LET me == inflight[t]
           others == {inflight[u].seq : u \in {v \in Threads \ {t} :
                                                  inflight[v].pc # "idle"}}
           latest == IF others = {} THEN 0
                     ELSE CHOOSE n \in others : \A m \in others : m <= n
       IN  /\ IF me.op = "post_analyze"
              THEN /\ analysesCache' =
                          Upsert(analysesCache, me.key,
                                 [analysis_id |-> me.analysis_id])
                   /\ UNCHANGED provenanceCache
              ELSE /\ provenanceCache' =
                          Upsert(provenanceCache, me.key,
                                 [analysis_id |-> me.analysis_id,
                                  timestamp |-> me.timestamp_now])
                   /\ UNCHANGED analysesCache
           /\ inflight' = [inflight EXCEPT ![t] =
                  [me EXCEPT !.pc = "done", !.seq = latest + 1]]
    /\ UnchangedStores
    /\ UNCHANGED <<jobs, dispatched, now, last, graph>>

(* The response is returned and the thread is free again. *)
Retire(t) ==
    /\ Idle
    /\ inflight[t].pc = "done"
    /\ inflight' = [inflight EXCEPT ![t] = [pc |-> "idle"]]
    /\ UnchangedStores
    /\ UNCHANGED <<analysesCache, provenanceCache, jobs, dispatched, now, last,
                   graph>>

(* get_analyze_by_hash, handled by a thread of its own: it reads what the
   other threads have written so far. *)
LookUp(t) ==
    /\ Idle
    /\ inflight[t].pc = "idle"
    /\ \E image_hash \in Digests :
         \E r \in {get_analyze_by_hash(World, image_hash)} :
             inflight' = [inflight EXCEPT ![t] =
                 [pc |-> "done", op |-> "get_analyze_by_hash",
                  req |-> image_hash, env |-> "None", key |-> <<>>,
                  timestamp_now |-> now, analysis_id |-> NoHandle,
                  cached |-> "False", raised |-> r.raised, dispatches |-> 0,
                  seq |-> 0, response |-> r.response, status |-> r.status]]
    /\ UnchangedStores
    /\ UNCHANGED <<analysesCache, provenanceCache, jobs, dispatched, now, last,
                   graph>>

NextConcurrent ==
    \/ \E t \in Threads : Arrive(t)
    \/ \E t \in Threads : LookUp(t)
    \/ \E t \in Threads : Schedule(t)
    \/ \E t \in Threads : StoreByDigest(t)
    \/ \E t \in Threads : StoreRecord(t)
    \/ \E t \in Threads : Retire(t)
    \/ Tick

SpecConcurrent == Init /\ [][NextConcurrent]_vars

---------------------------------------------------------------------------
(* The process-wide GRAPH wrapper (openapi_server.py): __getattr__ tests
   is_connected(), connects if the test failed, and hands the attribute of
   the adapter over.  A thread can be preempted between any two of these
   calls. *)

MaxAccesses == 4

UnchangedByGraph ==
    UNCHANGED <<analysesCache, provenanceCache, advisersCache, buildlogsCache,
                analysisByDigest, buildLogs, results, jobs, dispatched, now,
                last, inflight>>

(* "if not self._graph.is_connected()" *)
GraphCheck(t) ==
    /\ graph.pc[t] = "idle"
    /\ graph.served[t] < MaxAccesses
    /\ graph' = [graph EXCEPT !.pc[t] = IF graph.connected THEN "serving"
                                        ELSE "connecting"]
    /\ UnchangedByGraph

(* "self._graph.connect()" *)
GraphConnect(t) ==
    /\ graph.pc[t] = "connecting"
    /\ graph' = [graph EXCEPT !.connected = TRUE, !.connects = @ + 1,
                              !.pc[t] = "serving"]
    /\ UnchangedByGraph

(* "return getattr(self._graph, item)" *)
GraphServe(t) ==
    /\ graph.pc[t] = "serving"
    /\ graph' = [graph EXCEPT !.pc[t] = "idle", !.served[t] = @ + 1]
    /\ UnchangedByGraph

NextGraph ==
    \/ \E t \in Threads : GraphCheck(t)
    \/ \E t \in Threads : GraphConnect(t)
    \/ \E t \in Threads : GraphServe(t)

SpecGraph == Init /\ [][NextGraph]_vars

---------------------------------------------------------------------------
(* The scheduler, the jobs and the result stores, as the queries see them. *)

MaxJobs == 1

ResultsStoreOf(analysis_id) ==
    CASE StartsWith(analysis_id, PackageExtractPrefix) -> "AnalysisResultsStore"
      [] StartsWith(analysis_id, ProvenanceCheckerPrefix) -> "ProvenanceResultsStore"
      [] StartsWith(analysis_id, AdviserPrefix) -> "AdvisersResultsStore"
      [] OTHER -> "BuildLogsAnalysisResultsStore"

UnchangedCaches ==
    UNCHANGED <<analysesCache, provenanceCache, advisersCache, buildlogsCache,
                analysisByDigest>>

(* An orchestrator's _do_schedule registers a job with the scheduler. *)
JobScheduled ==
    /\ Idle
    /\ dispatched < MaxJobs
    /\ \E prefix \in Prefixes :
         LET scheduled == _do_schedule(World, <<>>, prefix, TRUE)
         IN  /\ jobs' = scheduled.w.jobs
             /\ dispatched' = scheduled.w.dispatched
    /\ UnchangedCaches
    /\ UNCHANGED <<buildLogs, results, now, last, inflight, graph>>

(* The scheduler moves a job towards its run. *)
JobAdvances ==
    /\ Idle
    /\ \E job_id \in DOMAIN jobs :
         \/ /\ jobs[job_id].state = "registered"
            /\ jobs' = [jobs EXCEPT ![job_id].state = "scheduling"]
         \/ /\ jobs[job_id].state = "scheduling"
            /\ jobs' = [jobs EXCEPT ![job_id].state = "waiting"]
         \/ /\ jobs[job_id].state = "waiting"
            /\ jobs' = [jobs EXCEPT ![job_id].state = "running"]
    /\ UnchangedCaches
    /\ UNCHANGED <<buildLogs, results, dispatched, now, last, inflight, graph>>

JobTerminates ==
    /\ Idle
    /\ \E job_id \in DOMAIN jobs, exit_code \in ExitCodes :
         /\ jobs[job_id].state = "running"
         /\ jobs' = [jobs EXCEPT ![job_id] =
                        [state |-> "terminated", exit_code |-> exit_code]]
    /\ UnchangedCaches
    /\ UNCHANGED <<buildLogs, results, dispatched, now, last, inflight, graph>>

(* The scheduler reports a state this service does not know. *)
JobInUnknownState ==
    /\ Idle
    /\ \E job_id \in DOMAIN jobs :
         /\ jobs[job_id].state \in {"registered", "scheduling", "waiting", "running"}
         /\ jobs' = [jobs EXCEPT ![job_id].state = "unknown"]
    /\ UnchangedCaches
    /\ UNCHANGED <<buildLogs, results, dispatched, now, last, inflight, graph>>

(* The scheduler forgets a finished job. *)
JobForgotten ==
    /\ Idle
    /\ \E job_id \in DOMAIN jobs :
         /\ jobs[job_id].state = "terminated"
         /\ jobs' = [j \in DOMAIN jobs \ {job_id} |-> jobs[j]]
    /\ UnchangedCaches
    /\ UNCHANGED <<buildLogs, results, dispatched, now, last, inflight, graph>>

(* A job that ran to a successful end has its result in the result store,
   possibly only after the scheduler reports it terminated. *)
ResultStored ==
    /\ Idle
    /\ \E job_id \in DOMAIN jobs :
         /\ \/ jobs[job_id].state = "running"
            \/ jobs[job_id].state = "terminated" /\ jobs[job_id].exit_code = 0
         /\ <<ResultsStoreOf(job_id), job_id>> \notin results
         /\ results' = results \cup {<<ResultsStoreOf(job_id), job_id>>}
    /\ UnchangedCaches
    /\ UNCHANGED <<buildLogs, jobs, dispatched, now, last, inflight, graph>>

PostBuildlog ==
    /\ Idle
    /\ \E log_info \in {LogA} :
         Handled("post_buildlog", log_info, "None", [hit |-> FALSE],
                 post_buildlog(World, log_info))

(* What a query finds: the result document and the scheduler's report. *)
Found(adapter_class, analysis_id) ==
    [found |-> StoreHas(World, adapter_class, analysis_id),
     known |-> analysis_id \in DOMAIN jobs,
     report |-> IF analysis_id \in DOMAIN jobs THEN jobs[analysis_id]
                ELSE [state |-> "None", exit_code |-> -1]]

Query(op, analysis_id, adapter_class, r) ==
    /\ Idle
    /\ Handled(op, analysis_id, "None", Found(adapter_class, analysis_id), r)

GetAnalyze ==
    \E id \in QueryIds :
        Query("get_analyze", id, "AnalysisResultsStore", get_analyze(World, id))
GetAnalyzeLog ==
    \E id \in QueryIds :
        Query("get_analyze_log", id, "AnalysisResultsStore",
              get_analyze_log(World, id))
GetAnalyzeStatus ==
    \E id \in QueryIds :
        Query("get_analyze_status", id, "AnalysisResultsStore",
              get_analyze_status(World, id))
GetProvenancePython ==
    \E id \in QueryIds :
        Query("get_provenance_python", id, "ProvenanceResultsStore",
              get_provenance_python(World, id))
GetProvenancePythonLog ==
    \E id \in QueryIds :
        Query("get_provenance_python_log", id, "ProvenanceResultsStore",
              get_provenance_python_log(World, id))
GetProvenancePythonStatus ==
    \E id \in QueryIds :
        Query("get_provenance_python_status", id, "ProvenanceResultsStore",
              get_provenance_python_status(World, id))
GetAdvisePython ==
    \E id \in QueryIds :
        Query("get_advise_python", id, "AdvisersResultsStore",
              get_advise_python(World, id))
GetAdvisePythonLog ==
    \E id \in QueryIds :
        Query("get_advise_python_log", id, "AdvisersResultsStore",
              get_advise_python_log(World, id))
GetAdvisePythonStatus ==
    \E id \in QueryIds :
        Query("get_advise_python_status", id, "AdvisersResultsStore",
              get_advise_python_status(World, id))
GetBuildlogAnalyze ==
    \E id \in QueryIds :
        Query("get_buildlog_analyze", id, "BuildLogsAnalysisResultsStore",
              get_buildlog_analyze(World, id))
GetBuildlog ==
    \E id \in QueryIds :
        Query("get_buildlog", id, "BuildLogsStore", get_buildlog(World, id))

NextResolve ==
    \/ JobScheduled
    \/ JobAdvances
    \/ JobTerminates
    \/ JobInUnknownState
    \/ JobForgotten
    \/ ResultStored
    \/ PostBuildlog
    \/ GetAnalyze
    \/ GetAnalyzeLog
    \/ GetAnalyzeStatus
    \/ GetProvenancePython
    \/ GetProvenancePythonLog
    \/ GetProvenancePythonStatus
    \/ GetAdvisePython
    \/ GetAdvisePythonLog
    \/ GetAdvisePythonStatus
    \/ GetBuildlogAnalyze
    \/ GetBuildlog
    \/ Return

(* The job lifecycle queries over the scheduler and the result stores. *)
SpecResolve == Init /\ [][NextResolve]_vars

---------------------------------------------------------------------------
(* A client polling for the result of a job that ends well.  The job stays
   known to the scheduler, passes through its states to an end with exit
   code 0, and its result reaches the result store, before or after the
   scheduler reports the end. *)

JobHandles == {p \o <<Digit[n]>> : p \in Prefixes, n \in 1..MaxJobs}

JobSucceeds ==
    /\ Idle
    /\ \E job_id \in DOMAIN jobs :
         /\ jobs[job_id].state = "running"
         /\ jobs' = [jobs EXCEPT ![job_id] =
                        [state |-> "terminated", exit_code |-> 0]]
    /\ UnchangedCaches
    /\ UNCHANGED <<buildLogs, results, dispatched, now, last, inflight, graph>>

(* The result query of the kind of job the handle names. *)
DocumentQueryOf(analysis_id) ==
    CASE StartsWith(analysis_id, PackageExtractPrefix) -> "get_analyze"
      [] StartsWith(analysis_id, ProvenanceCheckerPrefix) -> "get_provenance_python"
      [] StartsWith(analysis_id, AdviserPrefix) -> "get_advise_python"
      [] OTHER -> "get_buildlog_analyze"

(* The client calls the result query with the handle it was given. *)
Poll(analysis_id) ==
    \/ /\ DocumentQueryOf(analysis_id) = "get_analyze"
       /\ Query("get_analyze", analysis_id, "AnalysisResultsStore",
                get_analyze(World, analysis_id))
    \/ /\ DocumentQueryOf(analysis_id) = "get_provenance_python"
       /\ Query("get_provenance_python", analysis_id, "ProvenanceResultsStore",
                get_provenance_python(World, analysis_id))
    \/ /\ DocumentQueryOf(analysis_id) = "get_advise_python"
       /\ Query("get_advise_python", analysis_id, "AdvisersResultsStore",
                get_advise_python(World, analysis_id))
    \/ /\ DocumentQueryOf(analysis_id) = "get_buildlog_analyze"
       /\ Query("get_buildlog_analyze", analysis_id,
                "BuildLogsAnalysisResultsStore",
                get_buildlog_analyze(World, analysis_id))

NextPoll ==
    \/ JobScheduled
    \/ JobAdvances
    \/ JobSucceeds
    \/ ResultStored
    \/ \E analysis_id \in JobHandles : Poll(analysis_id)
    \/ Return

(* The scheduler keeps moving the job, the job ends, its result is stored,
   the client keeps calling, and every call returns.  The steps of the
   scheduler and of the client are enabled between two requests only, hence
   strong fairness. *)
SpecPoll ==
    /\ Init
    /\ [][NextPoll]_vars
    /\ SF_vars(JobAdvances)
    /\ SF_vars(JobSucceeds)
    /\ SF_vars(ResultStored)
    /\ \A analysis_id \in JobHandles : SF_vars(Poll(analysis_id))
    /\ WF_vars(Return)

---------------------------------------------------------------------------
(* Image analyses looked up by the digest of the image, while the jobs run,
   end and are forgotten. *)

(* The image analyses requested: one image under either digest, forced or
   not, and one the registry refuses. *)
LookupInputs ==
    {in \in AnalyzeInputs :
        /\ in[1].debug = "False"
        /\ in[1].environment_type = "None"
        /\ in[2].kind \in {"ok", "ImageManifestUnknownError"}}

AnalyzeImage ==
    /\ Idle
    /\ \E in \in LookupInputs :
       \E runner_ok \in RunnerOutcomes(post_analyze(World, in[1], in[2], TRUE)) :
        Handled("post_analyze", in[1], in[2],
                Before(analysesCache, AnalyzeKey(in[1], in[2])),
                post_analyze(World, in[1], in[2], runner_ok))

GetAnalyzeByHash ==
    /\ Idle
    /\ \E image_hash \in Digests :
         Handled("get_analyze_by_hash", image_hash, "None",
                 Before(analysisByDigest, image_hash),
                 get_analyze_by_hash(World, image_hash))

NextLookup ==
    \/ AnalyzeImage
    \/ JobAdvances
    \/ JobTerminates
    \/ JobInUnknownState
    \/ JobForgotten
    \/ ResultStored
    \/ GetAnalyzeByHash
    \/ Return

SpecLookup == Init /\ [][NextLookup]_vars

---------------------------------------------------------------------------
(* Listings. *)

PAGINATION_SIZE == 100

(* Bounds of the listings. *)
MaxDocuments == 250
MaxPage == 3

Min(a, b) == IF a < b THEN a ELSE b

(* itertools.islice(iterable, start, stop): the items at the positions
   start .. stop - 1 (counted from 0) the iterable has; a negative start or
   stop raises ValueError. *)
Islice(iterable, start, stop) ==
    IF start < 0 \/ stop < 0
    THEN [raised |-> "ValueError"]
    ELSE [raised |-> "None",
          items |-> SubSeq(iterable, start + 1, Min(stop, Len(iterable)))]

(* _do_listing: one page of what adapter.get_document_listing() returned,
   with the pagination metadata as the third member of the answer. *)
_do_listing(adapter_class, page, result) ==
    LET sliced == Islice(result, page * PAGINATION_SIZE,
                          page * PAGINATION_SIZE + PAGINATION_SIZE)
    IN  IF sliced.raised # "None"
        THEN [raised |-> sliced.raised,
              response |-> [error |-> "Internal server error occurred"],
              status |-> 500, headers |-> EmptyDict,
              calls |-> [NoCalls EXCEPT !.store_get = 1]]
        ELSE [raised |-> "None",
              response |-> [results |-> sliced.items,
                            parameters |-> <<<<"page", page>>>>],
              status |-> 200,
              headers |-> [page |-> page, page_size |-> PAGINATION_SIZE,
                           results_count |-> Len(sliced.items)],
              calls |-> [NoCalls EXCEPT !.store_get = 1]]

list_analyze(page, result) == _do_listing("AnalysisResultsStore", page, result)
list_advise_python(page, result) == _do_listing("AdvisersResultsStore", page, result)
list_buildlog_analyze(page, result) ==
    _do_listing("BuildLogsAnalysisResultsStore", page, result)
list_buildlogs(page, result) == _do_listing("BuildLogsStore", page, result)

(* list(sorted(set(listing))): names are numbered in their sorting order. *)
RECURSIVE SortedList(_)
SortedList(S) ==
    IF S = {} THEN <<>>
    ELSE LET least == CHOOSE x \in S : \A y \in S : x <= y
         IN  <<least>> \o SortedList(S \ {least})

SortedSet(listing) == SortedList({listing[i] : i \in 1..Len(listing)})

(* list_software_environments_for_build and _for_run: what the graph
   database lists from offset page on, sorted and without duplicates. *)
list_software_environments(page, listing) ==
    LET result == SortedSet(listing)
    IN  [raised |-> "None",
         response |-> [parameters |-> <<<<"page", page>>>>, results |-> result],
         status |-> 200,
         headers |-> [page |-> page, page_size |-> PAGINATION_SIZE,
                      results_count |-> Len(result)],
         calls |-> [NoCalls EXCEPT !.graph = 1]]

list_software_environments_for_build(page, listing) ==
    list_software_environments(page, listing)

list_software_environments_for_run(page, listing) ==
    list_software_environments(page, listing)

(* list_runtime_environments: the parsed names of the solvers; the body is
   returned alone, without status and without metadata. *)
list_runtime_environments(solver_names) ==
    [raised |-> "None",
     response |-> [runtime_environments |->
                       [i \in 1..Len(solver_names) |-> <<"solver", solver_names[i]>>],
                   parameters |-> <<>>],
     status |-> 200, headers |-> EmptyDict,
     calls |-> [NoCalls EXCEPT !.scheduler = 1]]

(* list_python_package_indexes: the listing of the graph database, returned
   as it is. *)
list_python_package_indexes(listing) ==
    [raised |-> "None", response |-> listing, status |-> 200,
     headers |-> EmptyDict, calls |-> [NoCalls EXCEPT !.graph = 1]]

(* The numbers of documents a store lists: none, one, around a page, more
   than two pages. *)
ListingSizes ==
    {0, 1, PAGINATION_SIZE - 1, PAGINATION_SIZE, PAGINATION_SIZE + 1,
     MaxDocuments}

(* The listing of a store of n documents. *)
Listing(n) == [i \in 1..n |-> i]

Pages == -1..MaxPage

(* What the graph database and the scheduler list: a few names, with a
   duplicate and out of order. *)
GraphListings == {<<>>, <<2>>, <<3, 1, 3>>}

(* A list endpoint answers: nothing stored changes. *)
Listed(op, page, listed, r) ==
    /\ last' = [op |-> op, req |-> page, env |-> listed,
                before |-> [hit |-> FALSE, key |-> <<>>],
                response |-> r.response, status |-> r.status,
                raised |-> r.raised, calls |-> r.calls, at |-> now,
                headers |-> r.headers]
    /\ UNCHANGED <<analysesCache, provenanceCache, advisersCache, buildlogsCache,
                   analysisByDigest, buildLogs, results, jobs, dispatched, now,
                   inflight, graph>>

ListAnalyze ==
    /\ Idle
    /\ \E page \in Pages, n \in ListingSizes :
         Listed("list_analyze", page, n, list_analyze(page, Listing(n)))

ListAdvisePython ==
    /\ Idle
    /\ \E page \in Pages, n \in ListingSizes :
         Listed("list_advise_python", page, n,
                list_advise_python(page, Listing(n)))

ListBuildlogAnalyze ==
    /\ Idle
    /\ \E page \in Pages, n \in ListingSizes :
         Listed("list_buildlog_analyze", page, n,
                list_buildlog_analyze(page, Listing(n)))

ListBuildlogs ==
    /\ Idle
    /\ \E page \in Pages, n \in ListingSizes :
         Listed("list_buildlogs", page, n, list_buildlogs(page, Listing(n)))

ListSoftwareEnvironmentsForBuild ==
    /\ Idle
    /\ \E page \in Pages, listing \in GraphListings :
         Listed("list_software_environments_for_build", page, listing,
                list_software_environments_for_build(page, listing))

ListSoftwareEnvironmentsForRun ==
    /\ Idle
    /\ \E page \in Pages, listing \in GraphListings :
         Listed("list_software_environments_for_run", page, listing,
                list_software_environments_for_run(page, listing))

ListRuntimeEnvironments ==
    /\ Idle
    /\ \E solver_names \in GraphListings :
         Listed("list_runtime_environments", "None", solver_names,
                list_runtime_environments(solver_names))

ListPythonPackageIndexes ==
    /\ Idle
    /\ \E listing \in GraphListings :
         Listed("list_python_package_indexes", "None", listing,
                list_python_package_indexes(listing))

NextList ==
    \/ ListAnalyze
    \/ ListAdvisePython
    \/ ListBuildlogAnalyze
    \/ ListBuildlogs
    \/ ListSoftwareEnvironmentsForBuild
    \/ ListSoftwareEnvironmentsForRun
    \/ ListRuntimeEnvironments
    \/ ListPythonPackageIndexes
    \/ Return

(* The list endpoints over the listings of the stores. *)
SpecList == Init /\ [][NextList]_vars

---------------------------------------------------------------------------
(* Functions applied to the values of a request alone: the fingerprint of a
   parameter mapping and the environment of a pod template
   (src/thoth_user_api/utils.py). *)

(* Bounds of the inputs. *)
MaxKeys == 3
MaxEnv == 3

(* The mappings sent as log_info: the same pairs in both orders. *)
NestedMappings ==
    {<<<<"build_log", "log1">>>>,
     <<<<"build_log", "log1">>, <<"base_image", "fedora:30">>>>,
     <<<<"base_image", "fedora:30">>, <<"build_log", "log1">>>>}

ParameterPairs ==
    {<<"image", "quay.io/thoth/app">>, <<"image", "fedora:30">>,
     <<"force", "True">>, <<"origin", "None">>}
    \cup {<<"log_info", m>> : m \in NestedMappings}

(* The parameter mappings: up to MaxKeys pairs with different keys, in every
   order of insertion. *)
ParameterMappings ==
    {d \in UNION {[1..n -> ParameterPairs] : n \in 0..MaxKeys} :
        \A i, j \in 1..Len(d) : i # j => d[i][1] # d[j][1]}

(* A result computed from the arguments alone: nothing stored changes. *)
Applied(op, req, response) ==
    /\ last' = [op |-> op, req |-> req, response |-> response]
    /\ UNCHANGED <<analysesCache, provenanceCache, advisersCache, buildlogsCache,
                   analysisByDigest, buildLogs, results, jobs, dispatched, now,
                   inflight, graph>>

ComputeDigestParams ==
    /\ Idle
    /\ \E parameters \in ParameterMappings :
         Applied("_compute_digest_params", parameters,
                 _compute_digest_params(parameters))

(* The values passed for an environment variable: texts, integers, None. *)
EnvValues ==
    {[type |-> "str", text |-> "1"], [type |-> "str", text |-> "rsyslog"],
     [type |-> "int", number |-> 1], [type |-> "NoneType"]}

(* str(value) *)
Str(value) ==
    CASE value.type = "str" -> value.text
      [] value.type = "int" -> Digit[value.number]
      [] value.type = "NoneType" -> "None"

EnvNames == {"RSYSLOG_HOST", "RSYSLOG_PORT"}

(* The entries of a container's env list: a name with a value, or with a
   reference the value is taken from. *)
EnvEntries ==
    {[name |-> n, value |-> v] : n \in EnvNames, v \in {"0", "1"}}
    \cup {[name |-> n, valueFrom |-> "configMapKeyRef"] : n \in EnvNames}

EnvConfigs == UNION {[1..n -> EnvEntries] : n \in 0..MaxEnv}

(* Every entry of the name overwritten, not only the first. *)
_set_env_var_EveryMatch(env_config, name, value) ==
    IF \E i \in 1..Len(env_config) : env_config[i].name = name
    THEN [i \in 1..Len(env_config) |->
             IF env_config[i].name = name
             THEN [name |-> name, value |-> Str(value)]
             ELSE env_config[i]]
    ELSE Append(env_config, [name |-> name, value |-> Str(value)])

(* _set_env_var: the list as the call leaves it.  The first entry of the
   name gets the value and loses its valueFrom ("break"); without such an
   entry ("for ... else") one is appended. *)
_set_env_var(env_config, name, value) ==
    LET matches == {i \in 1..Len(env_config) : env_config[i].name = name}
        first == CHOOSE i \in matches : \A j \in matches : i <= j
        item == env_config[first]
        assigned == [k \in DOMAIN item \cup {"value"} |->
                        IF k = "value" THEN Str(value) ELSE item[k]]
        popped == [k \in DOMAIN assigned \ {"valueFrom"} |-> assigned[k]]
    IN  IF matches # {}
        THEN [env_config EXCEPT ![first] = popped]
        ELSE Append(env_config, [name |-> name, value |-> Str(value)])

SetEnvVar ==
    /\ Idle
    /\ \E env_config \in EnvConfigs, name \in EnvNames, value \in EnvValues :
         Applied("_set_env_var",
                 [env_config |-> env_config, name |-> name, value |-> value],
                 _set_env_var(env_config, name, value))

NextFunctions ==
    \/ ComputeDigestParams
    \/ SetEnvVar
    \/ Return

SpecFunctions == Init /\ [][NextFunctions]_vars

---------------------------------------------------------------------------
(* Properties of the orchestrators, checked under Spec. *)

Orchestrators ==
    {"post_analyze", "post_provenance_python", "post_advise_python",
     "post_buildlog_analyze"}

TimedOrchestrators == {"post_provenance_python", "post_advise_python"}

CacheOf(op) ==
    CASE op = "post_analyze" -> analysesCache
      [] op = "post_provenance_python" -> provenanceCache
      [] op = "post_advise_python" -> advisersCache
      [] op = "post_buildlog_analyze" -> buildlogsCache

(* The orchestrator op called on the present stores at time t. *)
Call(op, req, env, runner_ok, t) ==
    CASE op = "post_analyze" -> post_analyze(World, req, env, runner_ok)
      [] op = "post_provenance_python" ->
             post_provenance_python(World, req, env, runner_ok, t)
      [] op = "post_advise_python" -> post_advise_python(World, req, runner_ok, t)
      [] op = "post_buildlog_analyze" -> post_buildlog_analyze(World, req, runner_ok)

(* The request being answered is an orchestrator's, and it got as far as
   the cache: its input was valid, so it has a cache document id. *)
Orchestrated == ~Idle /\ last.op \in Orchestrators /\ last.before.key # <<>>

(* The request being answered dispatched a job and returns its handle. *)
Dispatched ==
    /\ Orchestrated
    /\ last.raised = "None"
    /\ last.status = 202
    /\ last.response.cached = "False"

(* The times at which a record written at time t is still fresh. *)
LaterTimes == now..(MaxTime + THOTH_CACHE_EXPIRATION)

StillFresh(op, written, t) ==
    op \in TimedOrchestrators => written + THOTH_CACHE_EXPIRATION > t

(* The same request, sent again at time t, is answered from the cache with
   the handle of the request being answered. *)
AnsweredAgainFromCache(req, t) ==
    \A runner_ok \in BOOLEAN :
        LET again == Call(last.op, req, last.env, runner_ok, t)
        IN  /\ again.raised = "None"
            /\ again.status = 202
            /\ again.response.analysis_id = last.response.analysis_id
            /\ again.response.cached = "True"
            /\ again.calls.dispatch = 0

(* C1: idempotence.  When an unforced request dispatched a job and returned
   handle h, the same unforced request with the same image digest or the
   same whitelisted sources, sent again while the record is fresh, returns h
   with cached = true and status 202 and calls the dispatcher zero times;
   and every unforced request that finds a fresh record under its document
   id is answered with that record's handle, cached, without a dispatch. *)
C1_Idempotence ==
    /\ (Dispatched /\ last.req.force = "False") =>
           \A t \in LaterTimes :
               StillFresh(last.op, last.at, t) => AnsweredAgainFromCache(last.req, t)
    /\ (/\ Orchestrated
        /\ last.req.force = "False"
        /\ last.before.hit
        /\ last.op \in TimedOrchestrators =>
               last.before.record.timestamp + THOTH_CACHE_EXPIRATION > last.at) =>
           /\ last.status = 202
           /\ last.response.analysis_id = last.before.record.analysis_id
           /\ last.response.cached = "True"
           /\ last.calls.dispatch = 0

(* A provenance check is answered from a record written at an earlier time. *)
C1_Witness ==
    /\ Orchestrated
    /\ last.op = "post_provenance_python"
    /\ last.req.force = "False"
    /\ last.before.hit
    /\ last.before.record.timestamp < last.at
    /\ last.response.cached = "True"
    /\ last.calls.dispatch = 0

(* C2: force-override always dispatches.  A forced request with valid input
   calls the dispatcher exactly once, also when a fresh record exists for
   its document id, never reads the cache, and, the dispatcher accepting
   the job, returns the newly dispatched handle with cached = false. *)
C2_ForceAlwaysDispatches ==
    (Orchestrated /\ last.req.force = "True") =>
        /\ last.calls.dispatch = 1
        /\ last.calls.cache_get = 0
        /\ last.raised = "None" =>
               /\ last.status = 202
               /\ last.response.cached = "False"
               /\ last.response.analysis_id \in DOMAIN jobs
               /\ last.response.analysis_id[3] = Digit[dispatched]
               /\ jobs[last.response.analysis_id].state = "registered"
               /\ last.before.hit =>
                      last.response.analysis_id # last.before.record.analysis_id

(* A forced provenance check dispatched although a fresh record existed. *)
C2_Witness ==
    /\ Orchestrated
    /\ last.op = "post_provenance_python"
    /\ last.req.force = "True"
    /\ last.before.hit
    /\ last.before.record.timestamp + THOTH_CACHE_EXPIRATION > last.at
    /\ last.calls.dispatch = 1
    /\ last.raised = "None"
    /\ last.response.cached = "False"

(* C3: force-override overwrites the cache record.  After a forced request
   of any of the four orchestrators dispatched handle h, the same request
   without force (sent while the record is fresh) is answered from the
   cache with h. *)
C3_ForceOverwritesRecord ==
    (Dispatched /\ last.req.force = "True") =>
        \A t \in LaterTimes :
            StillFresh(last.op, last.at, t) =>
                AnsweredAgainFromCache([last.req EXCEPT !.force = "False"], t)

(* C4: TTL expiry in post_provenance_python and post_advise_python.  An
   unforced request that finds a record with timestamp + TTL <= now is
   handled as a miss: the dispatcher is called once and, it accepting the
   job, the response carries cached = false and the record is replaced by
   the new handle with timestamp = now.  With timestamp + TTL > now the
   stored handle is returned as cached and nothing is dispatched. *)
C4_TTLExpiry ==
    (/\ Orchestrated
     /\ last.op \in TimedOrchestrators
     /\ last.req.force = "False"
     /\ last.before.hit) =>
        IF last.before.record.timestamp + THOTH_CACHE_EXPIRATION <= last.at
        THEN /\ last.calls.dispatch = 1
             /\ last.raised = "None" =>
                    /\ last.status = 202
                    /\ last.response.cached = "False"
                    /\ last.response.analysis_id # last.before.record.analysis_id
                    /\ CacheOf(last.op)[last.before.key] =
                           [analysis_id |-> last.response.analysis_id,
                            timestamp |-> last.at]
             /\ last.raised # "None" =>
                    CacheOf(last.op)[last.before.key] = last.before.record
        ELSE /\ last.status = 202
             /\ last.response.analysis_id = last.before.record.analysis_id
             /\ last.response.cached = "True"
             /\ last.calls.dispatch = 0
             /\ CacheOf(last.op)[last.before.key] = last.before.record

(* An advise found an expired record and dispatched a new job. *)
C4_Witness ==
    /\ Orchestrated
    /\ last.op = "post_advise_python"
    /\ last.req.force = "False"
    /\ last.before.hit
    /\ last.before.record.timestamp + THOTH_CACHE_EXPIRATION <= last.at
    /\ last.raised = "None"
    /\ last.response.cached = "False"
    /\ advisersCache[last.before.key].timestamp = last.at

---------------------------------------------------------------------------
(* Properties of the job lifecycle queries, checked under SpecResolve. *)

DocumentQueries ==
    {"get_analyze", "get_provenance_python", "get_advise_python",
     "get_buildlog_analyze"}

LogQueries ==
    {"get_analyze_log", "get_provenance_python_log", "get_advise_python_log"}

StatusQueries ==
    {"get_analyze_status", "get_provenance_python_status",
     "get_advise_python_status"}

(* The prefix a handle of the operation carries. *)
PrefixOf(op) ==
    CASE op \in {"get_analyze", "get_analyze_log", "get_analyze_status"} ->
             <<"package-extract", "-">>
      [] op \in {"get_provenance_python", "get_provenance_python_log",
                 "get_provenance_python_status"} -> <<"provenance-checker", "-">>
      [] op \in {"get_advise_python", "get_advise_python_log",
                 "get_advise_python_status"} -> <<"adviser", "-">>
      [] op = "get_buildlog_analyze" -> <<"build-analyze", "-">>

HasPrefix(id, prefix) ==
    /\ Len(id) >= Len(prefix)
    /\ \A i \in 1..Len(prefix) : id[i] = prefix[i]

(* The request being answered is a query with a prefixed handle. *)
Querying ==
    ~Idle /\ last.op \in DocumentQueries \cup LogQueries \cup StatusQueries

(* A result query with a well-formed handle found no document in the result
   store and asked the scheduler, which knows the job. *)
ResolvedByScheduler ==
    /\ ~Idle
    /\ last.op \in DocumentQueries
    /\ HasPrefix(last.req, PrefixOf(last.op))
    /\ ~last.before.found
    /\ last.before.known

(* C5: prefix validation.  Every result, log and status query whose handle
   does not start with the operation's prefix is rejected with status 400
   'Wrong analysis id provided', and neither the result store nor the
   scheduler is called. *)
C5_PrefixValidation ==
    (Querying /\ ~HasPrefix(last.req, PrefixOf(last.op))) =>
        /\ last.raised = "None"
        /\ last.status = 400
        /\ last.response.error = "Wrong analysis id provided"
        /\ last.calls.store_get = 0
        /\ last.calls.scheduler = 0

(* The handle of a job the scheduler knows, sent to another operation's log
   query, is rejected. *)
C5_Witness ==
    /\ Querying
    /\ last.op = "get_advise_python_log"
    /\ last.req \in DOMAIN jobs
    /\ ~HasPrefix(last.req, PrefixOf(last.op))
    /\ last.status = 400

(* C6: race reconciliation.  With no document in the result store and the
   scheduler reporting 'running', or 'terminated' with exit code 0, the
   resolver answers in progress: status 202, 'Analysis is still in
   progress', the scheduler's report attached; never 400 or 404. *)
C6_RaceReconciliation ==
    (/\ ResolvedByScheduler
     /\ \/ last.before.report.state = "running"
        \/ /\ last.before.report.state = "terminated"
           /\ last.before.report.exit_code = 0) =>
        /\ last.raised = "None"
        /\ last.status = 202
        /\ last.response.error = "Analysis is still in progress"
        /\ last.response.status = last.before.report

(* The job ended with exit code 0 and its result is not yet in the store. *)
C6_Witness ==
    /\ ResolvedByScheduler
    /\ last.before.report.state = "terminated"
    /\ last.before.report.exit_code = 0
    /\ last.status = 202

(* C7: upstream failure.  With no document in the result store and the
   scheduler reporting 'terminated' with a nonzero exit code, the resolver
   answers failed: status 400, 'Analysis was not successful', the
   scheduler's report attached. *)
C7_UpstreamFailure ==
    (/\ ResolvedByScheduler
     /\ last.before.report.state = "terminated"
     /\ last.before.report.exit_code # 0) =>
        /\ last.raised = "None"
        /\ last.status = 400
        /\ last.response.error = "Analysis was not successful"
        /\ last.response.status = last.before.report

C7_Witness ==
    /\ ResolvedByScheduler
    /\ last.before.report.state = "terminated"
    /\ last.before.report.exit_code = 7
    /\ last.status = 400

(* C8: jobs not yet running.  With no document in the result store and the
   scheduler reporting 'registered', 'scheduling' or 'waiting', the
   resolver answers in progress, status 202, with the message of its own
   'Analysis is being scheduled'. *)
C8_BeingScheduled ==
    (/\ ResolvedByScheduler
     /\ last.before.report.state \in {"registered", "scheduling", "waiting"}) =>
        /\ last.raised = "None"
        /\ last.status = 202
        /\ last.response.error = "Analysis is being scheduled"
        /\ last.response.status = last.before.report

C8_Witness ==
    /\ ResolvedByScheduler
    /\ last.before.report.state = "registered"
    /\ last.status = 202

(* C9: invariant violation.  With no document in the result store and the
   scheduler reporting a state outside running, terminated, registered,
   scheduling and waiting, the resolver raises ValueError, which surfaces
   as status 500: none of 200, 202, 400 and 404 is returned, and the
   handler of the scheduler's not-found does not swallow the error. *)
C9_UnknownStateIsFatal ==
    (/\ ResolvedByScheduler
     /\ last.before.report.state \notin
            {"running", "terminated", "registered", "scheduling", "waiting"}) =>
        /\ last.raised = "ValueError"
        /\ last.status = 500
        /\ last.status \notin {200, 202, 400, 404}

C9_Witness ==
    /\ ResolvedByScheduler
    /\ last.before.report.state = "unknown"
    /\ last.raised = "ValueError"

(* C10: not-found collapse.  With no document in the result store and the
   job unknown to the scheduler, or no namespace to ask in (get_buildlog),
   the resolver answers not found: status 404, the id echoed. *)
C10_NotFoundCollapse ==
    (/\ ~Idle
     /\ \/ /\ last.op \in DocumentQueries
           /\ HasPrefix(last.req, PrefixOf(last.op))
           /\ ~last.before.known
        \/ last.op = "get_buildlog"
     /\ ~last.before.found) =>
        /\ last.raised = "None"
        /\ last.status = 404
        /\ last.response.parameters = <<<<"analysis_id", last.req>>>>
        /\ last.op = "get_buildlog" => last.calls.scheduler = 0

(* The scheduler has forgotten the job and its result is in no store. *)
C10_Witness ==
    /\ ~Idle
    /\ last.op \in DocumentQueries
    /\ HasPrefix(last.req, PrefixOf(last.op))
    /\ dispatched > 0
    /\ Len(last.req) = 3
    /\ last.req[3] = Digit[dispatched]
    /\ ~last.before.known
    /\ ~last.before.found
    /\ last.status = 404

(* The result store the operation reads. *)
ResultsStoreOfQuery(op) ==
    CASE op = "get_analyze" -> "AnalysisResultsStore"
      [] op = "get_provenance_python" -> "ProvenanceResultsStore"
      [] op = "get_advise_python" -> "AdvisersResultsStore"
      [] op = "get_buildlog_analyze" -> "BuildLogsAnalysisResultsStore"
      [] op = "get_buildlog" -> "BuildLogsStore"

(* The request being answered is a result query that passed the prefix test
   (get_buildlog has none). *)
Resolving ==
    /\ ~Idle
    /\ \/ last.op \in DocumentQueries /\ HasPrefix(last.req, PrefixOf(last.op))
       \/ last.op = "get_buildlog"

(* C11: resolver ordering in _get_document.  The result store is read first,
   once; a document found there is returned with status 200 and the
   scheduler is not called; the scheduler is called at most once in a
   resolve call, and only when the result store had no document. *)
C11_ResolverOrdering ==
    Resolving =>
        /\ last.calls.store_get = 1
        /\ last.calls.scheduler <= 1
        /\ last.before.found =>
               /\ last.raised = "None"
               /\ last.status = 200
               /\ last.response = [document |-> <<ResultsStoreOfQuery(last.op), last.req>>]
               /\ last.calls.scheduler = 0
        /\ last.calls.scheduler = 1 => ~last.before.found

(* The result of a job the scheduler still reports as running is in the
   store: the document is returned and the scheduler is not asked. *)
C11_Witness ==
    /\ Resolving
    /\ last.op \in DocumentQueries
    /\ last.before.found
    /\ last.before.known
    /\ last.before.report.state = "running"
    /\ last.status = 200
    /\ last.calls.scheduler = 0

---------------------------------------------------------------------------
(* Properties of the composite build analysis, checked under SpecBuild. *)

BuildOrder == <<"output_image", "base_image", "build_log">>

Position(name) == CHOOSE i \in 1..Len(BuildOrder) : BuildOrder[i] = name

(* The slot of the composite response a sub-operation answers into. *)
SlotOf(name) ==
    CASE name = "output_image" -> "output_image_analysis"
      [] name = "base_image" -> "base_image_analysis"
      [] name = "build_log" -> "build_log_analysis"

(* The payload holds the key with a value that is neither empty nor None. *)
KeySet(build_detail, key) ==
    \E i \in 1..Len(build_detail) :
        build_detail[i][1] = key /\ build_detail[i][2] \notin {"", "None"}

(* The request being answered is a composite build analysis. *)
Building == ~Idle /\ last.op = "post_build"

(* The sub-operations the request invoked, in the order of their calls. *)
Subs == last.before.subs

Invoked == {Subs[i].name : i \in 1..Len(Subs)}

(* The sub-operation returned an answer other than 202, or raised. *)
Failed(sub) == sub.raised # "None" \/ sub.status # 202

(* The sub-operation dispatched a job of its own. *)
SubDispatched(sub) ==
    /\ sub.raised = "None"
    /\ "cached" \in DOMAIN sub.response
    /\ sub.response.cached = "False"

HandleNumber(analysis_id) ==
    CHOOSE n \in 1..Len(Digit) : Digit[n] = analysis_id[Len(analysis_id)]

(* C12: composite build ordering and short-circuit.  The sub-operations run
   in the order output image, base image, build log (the jobs they dispatch
   are numbered in that order); only the last sub-operation invoked can have
   answered anything but 202, and then the composite returns its status: no
   sub-operation is invoked after one that did not answer 202. *)
C12_BuildOrderAndShortCircuit ==
    Building =>
        /\ \A i, j \in 1..Len(Subs) :
               i < j =>
                   /\ Position(Subs[i].name) < Position(Subs[j].name)
                   /\ (SubDispatched(Subs[i]) /\ SubDispatched(Subs[j])) =>
                          HandleNumber(Subs[i].response.analysis_id)
                              < HandleNumber(Subs[j].response.analysis_id)
        /\ \A i \in 1..Len(Subs) :
               Failed(Subs[i]) =>
                   /\ i = Len(Subs)
                   /\ last.status = Subs[i].status
                   /\ last.raised = Subs[i].raised
        /\ last.calls.metadata =
               Cardinality({i \in 1..Len(Subs) : Subs[i].name # "build_log"})
        /\ last.calls.buildlog_put =
               Cardinality({i \in 1..Len(Subs) :
                               /\ Subs[i].name = "build_log"
                               /\ (Subs[i].raised # "None"
                                   \/ Subs[i].response.cached = "False")})

(* The output image was analysed, the registry refused the base image, and
   the build log that was sent along was not analysed. *)
C12_Witness ==
    /\ Building
    /\ KeySet(last.req.build_detail, "build_log")
    /\ Len(Subs) = 2
    /\ SubDispatched(Subs[1])
    /\ Subs[2].name = "base_image"
    /\ Subs[2].status = 400
    /\ last.status = 400
    /\ last.calls.buildlog_put = 0

(* C13: sub-operations by payload keys.  post_build invokes a sub-operation
   only for a key that is set; a request that ends with 202 invoked the
   sub-operation of every key that is set; with only base_image set, only
   the base image analysis is invoked. *)
C13_SubOperationsByKeys ==
    Building =>
        /\ \A name \in Invoked : KeySet(last.req.build_detail, name)
        /\ (last.raised = "None" /\ last.status = 202) =>
               Invoked = {name \in {"output_image", "base_image", "build_log"} :
                              KeySet(last.req.build_detail, name)}
        /\ (/\ KeySet(last.req.build_detail, "base_image")
            /\ ~KeySet(last.req.build_detail, "output_image")
            /\ ~KeySet(last.req.build_detail, "build_log")) =>
               /\ Len(Subs) = 1
               /\ Subs[1].name = "base_image"
               /\ last.calls.metadata = 1
               /\ last.calls.dispatch <= 1
               /\ last.calls.buildlog_put = 0

(* Only base_image is set (output_image is there, but empty): the base
   image analysis alone is invoked and dispatches a job. *)
C13_Witness ==
    /\ Building
    /\ last.req.build_detail =
           <<<<"output_image", "">>, <<"base_image", "fedora:30">>>>
    /\ Len(Subs) = 1
    /\ Subs[1].name = "base_image"
    /\ SubDispatched(Subs[1])
    /\ last.status = 202

(* C14: empty payload.  With none of output_image, base_image and build_log
   set, post_build answers 400 'Bad Request! No information provided' and
   calls nothing: no registry, no cache, no dispatcher, no store. *)
C14_EmptyPayload ==
    (/\ Building
     /\ \A name \in {"output_image", "base_image", "build_log"} :
            ~KeySet(last.req.build_detail, name)) =>
        /\ last.raised = "None"
        /\ last.status = 400
        /\ DOMAIN last.response = {"error"}
        /\ last.response.error = "Bad Request! No information provided"
        /\ last.calls = NoCalls
        /\ Subs = <<>>

(* A payload whose only key is empty, sent after jobs were dispatched. *)
C14_Witness ==
    /\ Building
    /\ last.req.build_detail = <<<<"output_image", "">>>>
    /\ dispatched > 0
    /\ last.status = 400

(* The first sub-operation that returned an answer other than 202. *)
FailedWithAnswer(i) ==
    /\ i \in 1..Len(Subs)
    /\ Subs[i].raised = "None"
    /\ Subs[i].status # 202

(* C15 as stated: the body the composite returns is the failing
   sub-operation's response itself. *)
C15_ErrorVerbatim ==
    Building =>
        \A i \in 1..Len(Subs) :
            FailedWithAnswer(i) =>
                /\ last.status = Subs[i].status
                /\ DOMAIN last.response = DOMAIN Subs[i].response
                /\ last.response = Subs[i].response

(* C15, amended: composite error propagation.  When a sub-operation returns
   an answer other than 202 the composite stops and returns that status
   with the composite body: the failing sub-operation's response stands
   verbatim under its own key, the responses of the sub-operations before
   it under theirs, and {} under the keys of those not invoked. *)
C15_ErrorUnderItsKey ==
    Building =>
        \A i \in 1..Len(Subs) :
            FailedWithAnswer(i) =>
                /\ i = Len(Subs)
                /\ last.raised = "None"
                /\ last.status = Subs[i].status
                /\ DOMAIN last.response =
                       {"base_image_analysis", "output_image_analysis",
                        "build_log_analysis"}
                /\ \A j \in 1..i :
                       last.response[SlotOf(Subs[j].name)] = Subs[j].response
                /\ \A name \in {"output_image", "base_image", "build_log"} \ Invoked :
                       DOMAIN last.response[SlotOf(name)] = {}

(* The registry refused the base image after the output image's analysis
   was dispatched: both answers are in the composite body. *)
C15_Witness ==
    /\ Building
    /\ Len(Subs) = 2
    /\ FailedWithAnswer(2)
    /\ Subs[2].status = 400
    /\ last.status = 400
    /\ "analysis_id" \in DOMAIN last.response.output_image_analysis
    /\ "error" \in DOMAIN last.response.base_image_analysis

---------------------------------------------------------------------------
(* Properties of concurrent requests, checked under SpecConcurrent. *)

(* The thread finished a request in which it wrote a cache record. *)
Wrote(t) == inflight[t].pc = "done" /\ inflight[t].seq > 0

(* Both threads finished requests of the same operation with the same cache
   document id, and each wrote its record. *)
BothWrote(t, u) ==
    /\ t # u
    /\ Wrote(t)
    /\ Wrote(u)
    /\ inflight[t].op = inflight[u].op
    /\ inflight[t].key = inflight[u].key

RecordOf(t) ==
    IF inflight[t].op = "post_analyze"
    THEN [analysis_id |-> inflight[t].analysis_id]
    ELSE [analysis_id |-> inflight[t].analysis_id,
          timestamp |-> inflight[t].timestamp_now]

(* C16: concurrent misses.  A request dispatches at most once.  When two
   concurrent requests with the same cache document id both dispatched and
   both wrote their record, the cache holds exactly the record written last
   (no merge), and the same request sent unforced while that record is
   fresh is answered from the cache with that record's handle, without a
   dispatch. *)
C16_ConcurrentMisses ==
    /\ \A t \in Threads :
           inflight[t].pc # "idle" => inflight[t].dispatches <= 1
    /\ \A t, u \in Threads :
           (BothWrote(t, u) /\ inflight[t].seq > inflight[u].seq) =>
               /\ inflight[t].analysis_id # inflight[u].analysis_id
               /\ CacheOf(inflight[t].op)[inflight[t].key] = RecordOf(t)
               /\ \A later \in now..(MaxTime + THOTH_CACHE_EXPIRATION),
                     runner_ok \in BOOLEAN :
                      StillFresh(inflight[t].op, inflight[t].timestamp_now, later) =>
                          LET again == Call(inflight[t].op,
                                            [inflight[t].req EXCEPT !.force = "False"],
                                            inflight[t].env, runner_ok, later)
                          IN  /\ again.status = 202
                              /\ again.response.cached = "True"
                              /\ again.response.analysis_id = inflight[t].analysis_id
                              /\ again.calls.dispatch = 0

(* Two unforced provenance checks both missed and both dispatched; the
   record of the one that wrote last is in the cache. *)
C16_Witness ==
    \E t, u \in Threads :
        /\ BothWrote(t, u)
        /\ inflight[t].op = "post_provenance_python"
        /\ inflight[t].req.force = "False"
        /\ inflight[u].req.force = "False"
        /\ inflight[t].seq > inflight[u].seq
        /\ inflight[t].analysis_id # inflight[u].analysis_id
        /\ provenanceCache[inflight[t].key].analysis_id = inflight[t].analysis_id

---------------------------------------------------------------------------
(* Properties of the GRAPH wrapper, checked under SpecGraph. *)

(* C17: single initialization of the shared graph client.  Under every
   interleaving of the threads' uses of GRAPH, connect() is executed at
   most once, and every attribute is handed over by a connected adapter. *)
C17_SingleInitialization ==
    /\ graph.connects <= 1
    /\ \A t \in Threads : graph.pc[t] = "serving" => graph.connected

---------------------------------------------------------------------------
(* Properties of every step of the orchestrators, checked under Spec. *)

(* A step in which the orchestrator op answers a request. *)
Answers(op) == last.op = "none" /\ last'.op = op

(* C18: cache records come only from successful dispatches.  In every step,
   a cache record that is created or changed is the record of the request
   answered in that step, under that request's document id; that request
   called the dispatcher once, the dispatcher accepted, and the record's
   handle is the one the dispatcher registered in that step.  No other step
   and no other request creates or changes a record. *)
C18_RecordsFromDispatch ==
    [][\A op \in Orchestrators :
           \A key \in DOMAIN CacheOf(op)' :
               (\/ key \notin DOMAIN CacheOf(op)
                \/ CacheOf(op)'[key] # CacheOf(op)[key]) =>
                   /\ Answers(op)
                   /\ key = last'.before.key
                   /\ last'.raised = "None"
                   /\ last'.status = 202
                   /\ last'.calls.dispatch = 1
                   /\ last'.response.cached = "False"
                   /\ CacheOf(op)'[key].analysis_id = last'.response.analysis_id
                   /\ last'.response.analysis_id \notin DOMAIN jobs
                   /\ last'.response.analysis_id \in DOMAIN jobs'
                   /\ dispatched' = dispatched + 1]_vars

(* A forced request replaced the record of its document id by the record of
   the job it dispatched. *)
C18_Witness ==
    /\ Dispatched
    /\ last.before.hit
    /\ last.before.record.analysis_id # last.response.analysis_id
    /\ CacheOf(last.op)[last.before.key].analysis_id = last.response.analysis_id
    /\ last.response.analysis_id \in DOMAIN jobs

(* C19: no retry, failure surfaced.  A request calls the dispatcher at most
   once.  When the dispatcher was called and registered no job, the request
   ends with the dispatcher's exception (status 500) after that one call,
   and the four caches, the by-digest index and the scheduler's jobs are as
   they were before the request. *)
C19_NoRetry ==
    [][\A op \in Orchestrators :
           Answers(op) =>
               /\ last'.calls.dispatch <= 1
               /\ (last'.calls.dispatch = 1 /\ dispatched' = dispatched) =>
                      /\ last'.raised = "DispatchError"
                      /\ last'.status = 500
                      /\ last'.calls.cache_put = 0
                      /\ last'.calls.by_digest_put = 0
                      /\ UNCHANGED <<analysesCache, provenanceCache, advisersCache,
                                     buildlogsCache, analysisByDigest, jobs>>]_vars

(* The dispatcher refused the job of a forced image analysis whose document
   id had a record: the record and the by-digest index are kept. *)
C19_Witness ==
    /\ Orchestrated
    /\ last.op = "post_analyze"
    /\ last.raised = "DispatchError"
    /\ last.calls.dispatch = 1
    /\ last.before.hit
    /\ analysesCache[last.before.key] = last.before.record
    /\ last.env.digest \in DOMAIN analysisByDigest
    /\ analysisByDigest[last.env.digest].analysis_id = last.before.record.analysis_id

(* The application stack cannot be made a project of. *)
Malformed(op, req) ==
    LET stack == req.application_stack
        Bad(key) == \E i \in 1..Len(stack) :
                        stack[i][1] = key /\ stack[i][2] = "malformed"
        Has(key) == \E i \in 1..Len(stack) : stack[i][1] = key
    IN  \/ ~Has("requirements")
        \/ Bad("requirements")
        \/ Bad("requirements_lock")
        \/ op = "post_provenance_python" /\ ~Has("requirements_lock")

(* C20: client-input errors precede external calls.  post_provenance_python
   and post_advise_python answer a malformed application stack with status
   400 and an 'error' field, having called neither the graph database nor
   the cache nor the dispatcher; nothing stored changes. *)
C20_InputErrorsFirst ==
    [][\A op \in TimedOrchestrators :
           (Answers(op) /\ Malformed(op, last'.req)) =>
               /\ last'.raised = "None"
               /\ last'.status = 400
               /\ "error" \in DOMAIN last'.response
               /\ last'.calls = NoCalls
               /\ UNCHANGED <<analysesCache, provenanceCache, advisersCache,
                              buildlogsCache, analysisByDigest, buildLogs,
                              results, jobs, dispatched>>]_vars

(* A provenance check without requirements_lock, and an advise with a
   requirements text that does not parse, are rejected while records and
   jobs exist. *)
C20_Witness ==
    /\ ~Idle
    /\ \/ /\ last.op = "post_provenance_python"
          /\ last.req.application_stack = StackNoLock
       \/ /\ last.op = "post_advise_python"
          /\ last.req.application_stack = StackBad
    /\ last.status = 400
    /\ last.calls = NoCalls
    /\ dispatched > 0

---------------------------------------------------------------------------
(* Properties of the image analysis, checked under Spec. *)

(* C21: image metadata failure in post_analyze.  When the extraction of the
   image's metadata fails, post_analyze returns the error with status 401
   for an authentication that is required and 400 for every other image
   error; it has called the registry and nothing else: the cache is neither
   read nor written, no job is dispatched, the by-digest index is not
   written.  This holds for forced requests as well. *)
C21_MetadataFailure ==
    [][(Answers("post_analyze") /\ last'.env.kind # "ok") =>
           /\ last'.raised = "None"
           /\ last'.status = IF last'.env.kind = "ImageAuthenticationRequired"
                             THEN 401 ELSE 400
           /\ last'.response.error = last'.env.kind
           /\ last'.calls = [NoCalls EXCEPT !.metadata = 1]
           /\ UNCHANGED <<analysesCache, analysisByDigest, jobs, dispatched,
                          provenanceCache, advisersCache, buildlogsCache>>]_vars

(* The registry asks for authentication when a forced analysis of an image
   is requested, while records and jobs of earlier analyses exist. *)
C21_Witness ==
    /\ ~Idle
    /\ last.op = "post_analyze"
    /\ last.env.kind = "ImageAuthenticationRequired"
    /\ last.req.force = "True"
    /\ last.status = 401
    /\ DOMAIN analysesCache # {}
    /\ DOMAIN analysisByDigest # {}

---------------------------------------------------------------------------
(* Properties of the by-digest index, checked under SpecConcurrent. *)

(* The thread writes the by-digest index in this step. *)
WritesIndex(t) == inflight[t].pc = "scheduled" /\ inflight'[t].pc = "indexed"

(* The thread answers a lookup by digest in this step. *)
LooksUp(t) ==
    /\ inflight[t].pc = "idle"
    /\ inflight'[t].pc = "done"
    /\ inflight'[t].op = "get_analyze_by_hash"

(* The thread's image analysis dispatched a job for the digest and wrote the
   index. *)
Indexed(t, d) ==
    /\ inflight[t].pc \in {"indexed", "done"}
    /\ inflight[t].op = "post_analyze"
    /\ inflight[t].dispatches = 1
    /\ inflight[t].raised = "None"
    /\ inflight[t].env.digest = d

(* No image analysis is between its dispatch and its write of the index. *)
NoIndexWritePending ==
    \A t \in Threads : inflight[t].pc = "scheduled" => inflight[t].op # "post_analyze"

(* C22 as stated: once the calls that dispatched have written the index,
   the entry of a digest refers to the job dispatched last for it. *)
C22_IndexMostRecentDispatch ==
    NoIndexWritePending =>
        \A d \in DOMAIN analysisByDigest :
            \A t \in Threads :
                Indexed(t, d) =>
                    HandleNumber(analysisByDigest[d].analysis_id)
                        >= HandleNumber(inflight[t].analysis_id)

(* C22, amended: the secondary index of image analyses.  A post_analyze call
   that dispatched handle h for digest d writes h under d, and nothing else
   writes the index; get_analyze_by_hash(d) answers as get_analyze answers
   for the handle the index holds for d (404 when there is none): the entry
   of d is the handle of the call whose write of the index came last. *)
C22_IndexLastWriteWins ==
    [][/\ \A t \in Threads :
              WritesIndex(t) =>
                  /\ inflight[t].env.digest \in DOMAIN analysisByDigest'
                  /\ analysisByDigest'[inflight[t].env.digest].analysis_id
                         = inflight[t].analysis_id
                  /\ inflight[t].analysis_id \in DOMAIN jobs
                  /\ inflight[t].dispatches = 1
       /\ DOMAIN analysisByDigest \subseteq DOMAIN analysisByDigest'
       /\ \A d \in DOMAIN analysisByDigest' :
              (\/ d \notin DOMAIN analysisByDigest
               \/ analysisByDigest'[d] # analysisByDigest[d]) =>
                  \E t \in Threads : WritesIndex(t) /\ inflight[t].env.digest = d
       /\ \A t \in Threads :
              LooksUp(t) =>
                  LET d == inflight'[t].req
                  IN  /\ UNCHANGED <<analysisByDigest, analysesCache, jobs,
                                     dispatched, results>>
                      /\ IF d \in DOMAIN analysisByDigest
                         THEN LET h == analysisByDigest[d].analysis_id
                                  direct == get_analyze(World, h)
                              IN  /\ inflight'[t].status = direct.status
                                  /\ inflight'[t].response = direct.response
                                  /\ inflight'[t].raised = direct.raised
                                  /\ direct.status # 404
                         ELSE inflight'[t].status = 404]_vars

(* A lookup by digest is answered for the handle of the image analysis that
   another thread has just dispatched and written to the index. *)
C22_Witness ==
    \E t, v \in Threads :
        /\ inflight[v].pc = "done"
        /\ inflight[v].op = "get_analyze_by_hash"
        /\ inflight[v].status = 202
        /\ Indexed(t, inflight[v].req)
        /\ inflight[v].response.parameters =
               <<<<"analysis_id", inflight[t].analysis_id>>>>
        /\ analysisByDigest[inflight[v].req].analysis_id = inflight[t].analysis_id

---------------------------------------------------------------------------
(* Properties of the orchestrators' answers, checked under Spec. *)

(* C23: cached tagging.  A successful orchestrator response has status 202
   and carries cached = true or cached = false: true if and only if the
   request called the dispatcher zero times and the handle is the one of
   the cache record it read; false if and only if the handle is the one
   the dispatcher returned in the one dispatch of this request. *)
C23_CachedTagging ==
    (Orchestrated /\ last.raised = "None") =>
        /\ last.status = 202
        /\ last.response.cached \in {"True", "False"}
        /\ last.response.cached = "True" <=>
               /\ last.calls.dispatch = 0
               /\ last.calls.cache_get = 1
               /\ last.before.hit
               /\ last.response.analysis_id = last.before.record.analysis_id
        /\ last.response.cached = "False" <=>
               /\ last.calls.dispatch = 1
               /\ dispatched > 0
               /\ last.response.analysis_id[3] = Digit[dispatched]
               /\ last.response.analysis_id \in DOMAIN jobs
               /\ last.before.hit =>
                      last.response.analysis_id # last.before.record.analysis_id

(* An image analysis is answered from the cache record of an earlier
   request, after another job was dispatched in between. *)
C23_Witness ==
    /\ Orchestrated
    /\ last.op = "post_analyze"
    /\ last.raised = "None"
    /\ last.response.cached = "True"
    /\ last.calls.dispatch = 0
    /\ last.response.analysis_id[3] # Digit[dispatched]

---------------------------------------------------------------------------
(* Properties of the log and status queries, checked under SpecResolve. *)

(* C24: log and status queries.  For a handle with the operation's prefix,
   _get_job_log and _get_job_status call the scheduler exactly once and
   read no store; a job the scheduler does not know is answered with status
   404 and an error; otherwise the job's log, or the scheduler's status
   report, is returned as a success together with the parameters echoed. *)
C24_LogAndStatusQueries ==
    (/\ Querying
     /\ last.op \in LogQueries \cup StatusQueries
     /\ HasPrefix(last.req, PrefixOf(last.op))) =>
        /\ last.raised = "None"
        /\ last.calls = [NoCalls EXCEPT !.scheduler = 1]
        /\ last.response.parameters = <<<<"analysis_id", last.req>>>>
        /\ IF last.before.known
           THEN /\ last.status = 200
                /\ "error" \notin DOMAIN last.response
                /\ last.op \in LogQueries =>
                       /\ DOMAIN last.response = {"parameters", "log"}
                       /\ last.response.log = <<"log", last.req>>
                /\ last.op \in StatusQueries =>
                       /\ DOMAIN last.response = {"parameters", "status"}
                       /\ last.response.status = last.before.report
           ELSE /\ last.status = 404
                /\ DOMAIN last.response = {"parameters", "error"}

(* The log of a job the scheduler does not know is asked for: 404, after
   one call of the scheduler. *)
C24_Witness ==
    /\ Querying
    /\ last.op \in LogQueries
    /\ HasPrefix(last.req, PrefixOf(last.op))
    /\ Len(last.req) = 3
    /\ dispatched > 0
    /\ last.req[3] = Digit[dispatched]
    /\ ~last.before.known
    /\ last.status = 404
    /\ last.calls.scheduler = 1

---------------------------------------------------------------------------
(* Properties of the list endpoints, checked under SpecList. *)

DoListingEndpoints ==
    {"list_analyze", "list_advise_python", "list_buildlog_analyze",
     "list_buildlogs"}

ListEndpoints ==
    DoListingEndpoints
    \cup {"list_software_environments_for_build",
          "list_software_environments_for_run", "list_runtime_environments",
          "list_python_package_indexes"}

(* The number of items page k of a listing of n documents holds. *)
PageLength(n, k) ==
    IF k < 0 \/ k * PAGINATION_SIZE >= n THEN 0
    ELSE Min(PAGINATION_SIZE, n - k * PAGINATION_SIZE)

(* C25: pagination of _do_listing.  For a listing of N documents and every
   integer page k the call never raises and returns the k-th consecutive
   slice of the listing: min(PAGINATION_SIZE, N - k * PAGINATION_SIZE)
   items, and the empty list for a page that is out of range. *)
C25_Pagination ==
    (~Idle /\ last.op \in DoListingEndpoints) =>
        /\ last.raised = "None"
        /\ last.status = 200
        /\ Len(last.response.results) = PageLength(last.env, last.req)
        /\ \A i \in 1..Len(last.response.results) :
               last.response.results[i] = last.req * PAGINATION_SIZE + i

(* C26: pagination metadata.  Every list endpoint that returns an answer
   returns with it the metadata page, page_size and results_count: page is
   the page requested, page_size is PAGINATION_SIZE, results_count is the
   number of results returned. *)
C26_PaginationMetadata ==
    (~Idle /\ last.op \in ListEndpoints /\ last.raised = "None") =>
        /\ DOMAIN last.headers = {"page", "page_size", "results_count"}
        /\ last.headers.page = last.req
        /\ last.headers.page_size = PAGINATION_SIZE
        /\ last.headers.results_count = Len(last.response.results)

---------------------------------------------------------------------------
(* Properties of the response bodies, checked under SpecBuild. *)

(* C27: response shape.  Every response body a handler returns, on success
   and on error, is a mapping that holds the key 'parameters' and, beside
   it, a result payload or an 'error' string. *)
C27_ResponseShape ==
    (~Idle /\ last.raised = "None") =>
        /\ "parameters" \in DOMAIN last.response
        /\ DOMAIN last.response \ {"parameters"} # {}

---------------------------------------------------------------------------
(* Properties of the functions, checked under SpecFunctions. *)

(* The two mappings hold the same keys with the same values, nested
   mappings compared in the same way: they are equal but for the order of
   their keys. *)
RECURSIVE SameMapping(_, _)
SameMapping(p, q) ==
    /\ {p[i][1] : i \in 1..Len(p)} = {q[i][1] : i \in 1..Len(q)}
    /\ \A i \in 1..Len(p), j \in 1..Len(q) :
           p[i][1] = q[j][1] =>
               IF p[i][1] = "log_info"
               THEN SameMapping(p[i][2], q[j][2])
               ELSE p[i][2] = q[j][2]

(* C28: fingerprint determinism.  The fingerprint of a parameter mapping
   depends on its key/value pairs alone, at every level of nesting: every
   mapping that is equal to it after the normalization of the order of the
   keys has the same fingerprint, whatever the order of insertion. *)
C28_FingerprintDeterminism ==
    (~Idle /\ last.op = "_compute_digest_params") =>
        \A q \in ParameterMappings :
            SameMapping(last.req, q) => _compute_digest_params(q) = last.response

(* The fingerprint of a mapping of three keys with a nested mapping of two
   keys: another order of the outer and of the nested keys gives the same. *)
C28_Witness ==
    /\ ~Idle
    /\ last.op = "_compute_digest_params"
    /\ Len(last.req) = 3
    /\ \E q \in ParameterMappings :
           /\ SameMapping(last.req, q)
           /\ q[1][1] # last.req[1][1]
           /\ \E i \in 1..3, j \in 1..3 :
                  /\ last.req[i][1] = "log_info"
                  /\ q[j][1] = "log_info"
                  /\ Len(q[j][2]) = 2
                  /\ q[j][2] # last.req[i][2]
           /\ _compute_digest_params(q) = last.response

(* The first entry of the list the name has, if it has one. *)
FirstNamed(env_config, name) ==
    CHOOSE i \in 1..Len(env_config) :
        /\ env_config[i].name = name
        /\ \A j \in 1..(i - 1) : env_config[j].name # name

(* C29: _set_env_var(env_config, name, value).  If the list has an entry of
   the name, the first such entry gets the value str(value) and loses its
   'valueFrom' key, and the list keeps its length; otherwise exactly one
   entry {name, str(value)} is appended.  Every other entry is left as it
   was, and the same call applied again changes nothing. *)
C29_SetEnvVar ==
    (~Idle /\ last.op = "_set_env_var") =>
        LET before == last.req.env_config
            name == last.req.name
            text == CASE last.req.value.type = "str" -> last.req.value.text
                      [] last.req.value.type = "int" ->
                             Digit[last.req.value.number]
                      [] OTHER -> "None"
            after == last.response
        IN  /\ IF \E i \in 1..Len(before) : before[i].name = name
               THEN LET first == FirstNamed(before, name)
                    IN  /\ Len(after) = Len(before)
                        /\ after[first].name = name
                        /\ after[first].value = text
                        /\ DOMAIN after[first] =
                               (DOMAIN before[first] \cup {"value"}) \ {"valueFrom"}
                        /\ \A i \in 1..Len(before) :
                               i # first => after[i] = before[i]
               ELSE /\ Len(after) = Len(before) + 1
                    /\ after[Len(after)] = [name |-> name, value |-> text]
                    /\ \A i \in 1..Len(before) : after[i] = before[i]
            /\ _set_env_var(after, name, last.req.value) = after

(* The list holds two entries of the name, the first with a valueFrom: the
   integer 1 is set as "1" in the first, the second stays. *)
C29_Witness ==
    /\ ~Idle
    /\ last.op = "_set_env_var"
    /\ last.req.value = [type |-> "int", number |-> 1]
    /\ Len(last.req.env_config) = 3
    /\ last.req.env_config[1].name # last.req.name
    /\ last.req.env_config[2] = [name |-> last.req.name,
                                 valueFrom |-> "configMapKeyRef"]
    /\ last.req.env_config[3] = [name |-> last.req.name, value |-> "0"]
    /\ last.response[2] = [name |-> last.req.name, value |-> "1"]
    /\ last.response[3] = last.req.env_config[3]

---------------------------------------------------------------------------
(* Properties of polling, checked under SpecPoll. *)

(* The response to a poll of the handle is being returned. *)
Polled(analysis_id) ==
    /\ ~Idle
    /\ last.op = DocumentQueryOf(analysis_id)
    /\ last.req = analysis_id

(* The result of the job is in the result store. *)
Visible(analysis_id) ==
    <<ResultsStoreOf(analysis_id), analysis_id>> \in results

(* C30: polling converges.  For a dispatched job that stays known to the
   scheduler, ends with exit code 0 and whose result reaches the result
   store, a client that keeps calling the result query with the job's
   handle gets 202 (never 400 or 404) as long as the result is not visible,
   and 200 when it is; it eventually gets 200; and once it got 200, every
   later poll made while the result is in the store gets 200. *)
C30_PollingConverges ==
    \A analysis_id \in JobHandles :
        /\ []((Polled(analysis_id) /\ last.before.known) =>
                  /\ last.raised = "None"
                  /\ last.status = IF last.before.found THEN 200 ELSE 202)
        /\ (analysis_id \in DOMAIN jobs) ~>
               (Polled(analysis_id) /\ last.status = 200)
        /\ []((Polled(analysis_id) /\ last.status = 200) =>
                  []((Polled(analysis_id) /\ Visible(analysis_id)) =>
                         last.status = 200))

(* The scheduler reports the job ended with exit code 0, its result is in
   the store, and the poll is answered 200 with the document. *)
C30_Witness ==
    \E analysis_id \in JobHandles :
        /\ Polled(analysis_id)
        /\ last.before.known
        /\ last.before.report = [state |-> "terminated", exit_code |-> 0]
        /\ last.before.found
        /\ last.status = 200
        /\ last.response = [document |-> <<ResultsStoreOf(analysis_id), analysis_id>>]

---------------------------------------------------------------------------
(* Frame of a cache hit, checked under Spec. *)

(* The step answers an orchestrator's request from a cache record. *)
AnswersFromCache ==
    /\ Idle
    /\ Orchestrated'
    /\ last'.raised = "None"
    /\ last'.status = 202
    /\ last'.response.cached = "True"

(* The cache of the orchestrator as the step leaves it. *)
CacheAfter(op) ==
    CASE op = "post_analyze" -> analysesCache'
      [] op = "post_provenance_python" -> provenanceCache'
      [] op = "post_advise_python" -> advisersCache'
      [] op = "post_buildlog_analyze" -> buildlogsCache'

(* C31: a cache hit changes nothing.  A step in which an orchestrator
   answers from a cache record performs no cache write, no by-digest index
   write, no build-log store write and no dispatch: the four caches, the
   record served included with its timestamp, the index, the build-log
   store and the scheduler's jobs are after the call what they were before
   it. *)
C31_CacheHitChangesNothing ==
    [][AnswersFromCache =>
           /\ last'.calls.cache_put = 0
           /\ last'.calls.by_digest_put = 0
           /\ last'.calls.buildlog_put = 0
           /\ last'.calls.dispatch = 0
           /\ analysesCache' = analysesCache
           /\ provenanceCache' = provenanceCache
           /\ advisersCache' = advisersCache
           /\ buildlogsCache' = buildlogsCache
           /\ CacheAfter(last'.op)[last'.before.key] = last'.before.record
           /\ analysisByDigest' = analysisByDigest
           /\ buildLogs' = buildLogs
           /\ jobs' = jobs
           /\ dispatched' = dispatched]_vars

(* An advise was answered from a record written at an earlier time, and the
   record still carries the time it was written at. *)
C31_Witness ==
    /\ Orchestrated
    /\ last.op = "post_advise_python"
    /\ last.raised = "None"
    /\ last.response.cached = "True"
    /\ last.before.hit
    /\ last.before.record.timestamp < last.at
    /\ advisersCache[last.before.key].timestamp = last.before.record.timestamp
    /\ last.calls.cache_put = 0

---------------------------------------------------------------------------
(* The caches without a lifetime, checked under Spec. *)

UntimedOrchestrators == {"post_analyze", "post_buildlog_analyze"}

(* The step is a forced request of the orchestrator for the document id. *)
ForcedFor(op, key) ==
    /\ Idle
    /\ ~Idle'
    /\ last'.op = op
    /\ last'.req.force = "True"
    /\ last'.before.key = key

(* C32: image-analysis and build-log cache records never expire.  The
   records of post_analyze and post_buildlog_analyze hold a handle and no
   timestamp; an unforced request that finds a record under its document id
   is answered with the recorded handle as cached and dispatches nothing,
   at whatever time it is sent; and a record, once written, stays and
   changes only in a step that is a forced request for its document id. *)
C32_RecordsNeverExpire ==
    /\ []((/\ Orchestrated
           /\ last.op \in UntimedOrchestrators
           /\ last.req.force = "False"
           /\ last.before.hit) =>
              /\ DOMAIN last.before.record = {"analysis_id"}
              /\ last.raised = "None"
              /\ last.status = 202
              /\ last.response.analysis_id = last.before.record.analysis_id
              /\ last.response.cached = "True"
              /\ last.calls.dispatch = 0)
    /\ [][/\ \A key \in DOMAIN analysesCache :
                /\ key \in DOMAIN analysesCache'
                /\ analysesCache'[key] # analysesCache[key] =>
                       ForcedFor("post_analyze", key)
          /\ \A key \in DOMAIN buildlogsCache :
                /\ key \in DOMAIN buildlogsCache'
                /\ buildlogsCache'[key] # buildlogsCache[key] =>
                       ForcedFor("post_buildlog_analyze", key)]_vars

(* An image analysis is answered from the record of the first job, which was
   dispatched at time 0, before a provenance check also dispatched at time
   0: the time-to-live of the other caches has passed since. *)
C32_Witness ==
    /\ Orchestrated
    /\ last.op = "post_analyze"
    /\ last.req.force = "False"
    /\ last.before.hit
    /\ last.before.record.analysis_id[3] = "1"
    /\ \E key \in DOMAIN provenanceCache :
           /\ provenanceCache[key].timestamp = 0
           /\ provenanceCache[key].analysis_id[3] = "2"
    /\ last.at >= THOTH_CACHE_EXPIRATION
    /\ last.response.cached = "True"
    /\ last.response.analysis_id = last.before.record.analysis_id

---------------------------------------------------------------------------
(* What the fingerprints are made of, checked under Spec. *)

Flipped(flag) == IF flag = "True" THEN "False" ELSE "True"

(* C33: the 'debug' flag is not part of the provenance and advise
   fingerprints.  After an unforced post_provenance_python or
   post_advise_python request dispatched a job, the request that differs
   from it in 'debug' alone has the same document id and, sent while the
   record is fresh, is answered from the cache with the earlier handle and
   dispatches no job.  In post_analyze the request that differs in 'debug'
   alone has another document id, and is served by a dispatch unless that
   other document id has a record of its own. *)
C33_DebugAndFingerprints ==
    /\ (/\ Dispatched
        /\ last.op \in TimedOrchestrators
        /\ last.req.force = "False") =>
           LET other == [last.req EXCEPT !.debug = Flipped(@)]
           IN  /\ (IF last.op = "post_provenance_python"
                   THEN ProvenanceKey(other, last.env)
                   ELSE AdviseKey(other)) = last.before.key
               /\ \A t \in LaterTimes :
                      StillFresh(last.op, last.at, t) =>
                          AnsweredAgainFromCache(other, t)
    /\ (/\ Dispatched
        /\ last.op = "post_analyze"
        /\ last.req.force = "False") =>
           LET other == [last.req EXCEPT !.debug = Flipped(@)]
               key == AnalyzeKey(other, last.env)
               again == post_analyze(World, other, last.env, TRUE)
           IN  /\ key # last.before.key
               /\ key \notin DOMAIN analysesCache =>
                      /\ again.calls.dispatch = 1
                      /\ again.response.cached = "False"
                      /\ again.response.analysis_id # last.response.analysis_id

(* A provenance check without debug dispatched a job; the same check with
   debug set, sent at once, is answered from the record it left. *)
C33_Witness ==
    /\ Dispatched
    /\ last.op = "post_provenance_python"
    /\ last.req.force = "False"
    /\ last.req.debug = "False"
    /\ provenanceCache[last.before.key].analysis_id = last.response.analysis_id
    /\ AnsweredAgainFromCache([last.req EXCEPT !.debug = "True"], last.at)

(* An environment type left out: None or the empty text. *)
OmittedOrRuntime == {"None", "", "runtime"}

(* C34: normalization of environment_type in post_analyze.  A request with
   environment_type omitted (None or empty) and one with 'runtime' that are
   otherwise the same and meet the same image digest have the same document
   id, so that after one of them dispatched a job the other is answered from
   its record; another environment type has another document id.  The
   'force' flag is part neither of the document id nor of the parameters
   echoed. *)
C34_EnvironmentTypeDefault ==
    /\ (/\ Dispatched
        /\ last.op = "post_analyze"
        /\ last.req.force = "False"
        /\ last.req.environment_type \in OmittedOrRuntime) =>
           /\ \A e \in OmittedOrRuntime :
                  LET other == [last.req EXCEPT !.environment_type = e]
                  IN  /\ AnalyzeKey(other, last.env) = last.before.key
                      /\ AnsweredAgainFromCache(other, last.at)
           /\ AnalyzeKey([last.req EXCEPT !.environment_type = "buildtime"],
                         last.env) # last.before.key
    /\ (Orchestrated /\ last.op = "post_analyze") =>
           /\ AnalyzeKey([last.req EXCEPT !.force = Flipped(@)], last.env) =
                  last.before.key
           /\ (last.raised = "None" /\ last.status = 202) =>
                  "force" \notin DictKeys(last.response.parameters)

(* An image analysis sent without an environment type dispatched a job; the
   same request with 'runtime' is answered from its record. *)
C34_Witness ==
    /\ Dispatched
    /\ last.op = "post_analyze"
    /\ last.req.force = "False"
    /\ last.req.environment_type = "None"
    /\ DictGet(last.response.parameters, "environment_type") = "runtime"
    /\ AnsweredAgainFromCache([last.req EXCEPT !.environment_type = "runtime"],
                              last.at)

---------------------------------------------------------------------------
(* Properties of the lookup by digest, checked under SpecLookup. *)

(* C35: lookup by an unknown image hash.  get_analyze_by_hash for a digest
   without an entry in the by-digest index returns 404 with an error and
   asks neither the analysis result store nor the scheduler; for a digest
   with an entry it returns what get_analyze returns for the handle of the
   entry. *)
C35_LookupByHash ==
    (~Idle /\ last.op = "get_analyze_by_hash") =>
        IF last.req \notin DOMAIN analysisByDigest
        THEN /\ last.raised = "None"
             /\ last.status = 404
             /\ "error" \in DOMAIN last.response
             /\ last.calls.by_digest_get = 1
             /\ last.calls.store_get = 0
             /\ last.calls.scheduler = 0
        ELSE LET direct == get_analyze(World,
                               analysisByDigest[last.req].analysis_id)
             IN  /\ last.raised = direct.raised
                 /\ last.status = direct.status
                 /\ last.response = direct.response
                 /\ last.calls.store_get = direct.calls.store_get
                 /\ last.calls.scheduler = direct.calls.scheduler

(* The digest was never analysed while the other one was: the lookup is
   answered 404 although a job is known and its result stored. *)
C35_Witness ==
    /\ ~Idle
    /\ last.op = "get_analyze_by_hash"
    /\ last.req \notin DOMAIN analysisByDigest
    /\ DOMAIN analysisByDigest # {}
    /\ results # {}
    /\ last.status = 404
    /\ last.calls.store_get = 0
    /\ last.calls.scheduler = 0

=============================================================================
